---- MODULE Spec2Model ----
(***************************************************************************)
(* State-machine model of the fossil-image pixel engine                    *)
(* (src/code/logic/process.c, src/code/logic/analyze.c, colour code).      *)
(*                                                                         *)
(* An integer-format buffer is modelled as the sequence of its BYTES, as   *)
(* the code addresses it through uint8_t *data; a 16-bit element is the    *)
(* pair of bytes the uint16_t * casts read.  A float-format buffer is the  *)
(* sequence of its float elements, each held in fixed point (FScale units  *)
(* per 1.0).  uint32_t and size_t arithmetic wraps; TLC's integers are     *)
(* 32-bit, so the two widths are scaled to U32Bits and SizeBits bits.      *)
(***************************************************************************)
EXTENDS Integers, Sequences, FiniteSets, TLC

\* ------------------------------------------------------------------ bounds
U32Bits == 8
SizeBits == 16
MaxDim == 3
MaxAlloc == 256
MaxOps == 2

\* ------------------------------------------------------- program constants
FOSSIL_PIXEL_FORMAT_NONE == 0
FOSSIL_PIXEL_FORMAT_GRAY8 == 1
FOSSIL_PIXEL_FORMAT_GRAY16 == 2
FOSSIL_PIXEL_FORMAT_RGB24 == 3
FOSSIL_PIXEL_FORMAT_RGB48 == 4
FOSSIL_PIXEL_FORMAT_RGBA32 == 5
FOSSIL_PIXEL_FORMAT_RGBA64 == 6
FOSSIL_PIXEL_FORMAT_FLOAT32 == 7
FOSSIL_PIXEL_FORMAT_FLOAT32_RGB == 8
FOSSIL_PIXEL_FORMAT_FLOAT32_RGBA == 9
FOSSIL_PIXEL_FORMAT_INDEXED8 == 10
FOSSIL_PIXEL_FORMAT_YUV24 == 11

FOSSIL_INTERP_NEAREST == 0
FOSSIL_INTERP_LINEAR == 1
FOSSIL_INTERP_CUBIC == 2
FOSSIL_INTERP_LANCZOS == 3
FOSSIL_INTERP_BICUBIC == 4
FOSSIL_INTERP_MITCHELL == 5
FOSSIL_INTERP_BSPLINE == 6

\* sizeof(float), and the fixed-point scale of a modelled float (1.0 = FScale)
SizeofFloat == 4
FScale == 1000

\* -------------------------------------------------------- machine integers
Pow2(n) == 2 ^ n
U32(x) == x % Pow2(U32Bits)
SZ(x) == x % Pow2(SizeBits)
U32_MAX == Pow2(U32Bits) - 1

Min(a, b) == IF a < b THEN a ELSE b
Max(a, b) == IF a > b THEN a ELSE b

Formats == FOSSIL_PIXEL_FORMAT_GRAY8 .. FOSSIL_PIXEL_FORMAT_YUV24
FloatFormats == {FOSSIL_PIXEL_FORMAT_FLOAT32, FOSSIL_PIXEL_FORMAT_FLOAT32_RGB,
                 FOSSIL_PIXEL_FORMAT_FLOAT32_RGBA}
Formats16 == {FOSSIL_PIXEL_FORMAT_GRAY16, FOSSIL_PIXEL_FORMAT_RGB48,
              FOSSIL_PIXEL_FORMAT_RGBA64}
Formats8 == {FOSSIL_PIXEL_FORMAT_GRAY8, FOSSIL_PIXEL_FORMAT_RGB24,
             FOSSIL_PIXEL_FORMAT_RGBA32, FOSSIL_PIXEL_FORMAT_INDEXED8,
             FOSSIL_PIXEL_FORMAT_YUV24}

\* process.c:238-242 and the same test in every operation
is_float(format) == format \in FloatFormats

\* process.c:38-53
fossil_image_bytes_per_pixel(format) ==
    CASE format = FOSSIL_PIXEL_FORMAT_GRAY8 -> 1
      [] format = FOSSIL_PIXEL_FORMAT_GRAY16 -> 2
      [] format = FOSSIL_PIXEL_FORMAT_RGB24 -> 3
      [] format = FOSSIL_PIXEL_FORMAT_RGB48 -> 6
      [] format = FOSSIL_PIXEL_FORMAT_RGBA32 -> 4
      [] format = FOSSIL_PIXEL_FORMAT_RGBA64 -> 8
      [] format = FOSSIL_PIXEL_FORMAT_FLOAT32 -> 4
      [] format = FOSSIL_PIXEL_FORMAT_FLOAT32_RGB -> 12
      [] format = FOSSIL_PIXEL_FORMAT_FLOAT32_RGBA -> 16
      [] format = FOSSIL_PIXEL_FORMAT_INDEXED8 -> 1
      [] format = FOSSIL_PIXEL_FORMAT_YUV24 -> 3
      [] OTHER -> 0

\* process.c:69-90, the channel switch of create
create_channels(format) ==
    CASE format \in {FOSSIL_PIXEL_FORMAT_GRAY8, FOSSIL_PIXEL_FORMAT_GRAY16,
                     FOSSIL_PIXEL_FORMAT_FLOAT32, FOSSIL_PIXEL_FORMAT_INDEXED8} -> 1
      [] format \in {FOSSIL_PIXEL_FORMAT_RGB24, FOSSIL_PIXEL_FORMAT_RGB48,
                     FOSSIL_PIXEL_FORMAT_FLOAT32_RGB, FOSSIL_PIXEL_FORMAT_YUV24} -> 3
      [] format \in {FOSSIL_PIXEL_FORMAT_RGBA32, FOSSIL_PIXEL_FORMAT_RGBA64,
                     FOSSIL_PIXEL_FORMAT_FLOAT32_RGBA} -> 4
      [] OTHER -> 0

\* process.c:94-127, the byte-width switch of create
create_bytes_per_pixel(format) ==
    CASE format \in {FOSSIL_PIXEL_FORMAT_GRAY8, FOSSIL_PIXEL_FORMAT_INDEXED8} -> 1
      [] format = FOSSIL_PIXEL_FORMAT_GRAY16 -> 2
      [] format \in {FOSSIL_PIXEL_FORMAT_RGB24, FOSSIL_PIXEL_FORMAT_YUV24} -> 3
      [] format = FOSSIL_PIXEL_FORMAT_RGB48 -> 6
      [] format = FOSSIL_PIXEL_FORMAT_RGBA32 -> 4
      [] format = FOSSIL_PIXEL_FORMAT_RGBA64 -> 8
      [] format = FOSSIL_PIXEL_FORMAT_FLOAT32 -> 4
      [] format = FOSSIL_PIXEL_FORMAT_FLOAT32_RGB -> 12
      [] format = FOSSIL_PIXEL_FORMAT_FLOAT32_RGBA -> 16
      [] OTHER -> 0

\* Width in bytes of one element: float, uint16_t or uint8_t.
BytesPerElement(format) ==
    IF format \in FloatFormats THEN 4 ELSE IF format \in Formats16 THEN 2 ELSE 1
MaxValue(format) == IF format \in Formats16 THEN 65535 ELSE 255

\* ------------------------------------------------------------------ buffers
\* calloc(n, 1) / calloc(n / sizeof(float), sizeof(float)): n zero cells.
Zeros(n) == [k \in 1 .. n |-> 0]

\* Number of cells of a buffer of `bytes` bytes in an image of format `format`.
Cells(format, bytes) == IF is_float(format) THEN bytes \div SizeofFloat ELSE bytes

\* Bytes held by the buffer an image points to.
BufBytes(im) ==
    IF is_float(im.format) THEN SizeofFloat * Len(im.data) ELSE Len(im.data)

\* Cell i (0-based, as the code indexes) of a buffer; 0 beyond its end.
At(buf, i) == IF i >= 0 /\ i < Len(buf) THEN buf[i + 1] ELSE 0

\* Element e (0-based) of an image as the format defines it: a byte, a
\* little-endian uint16_t, or a float.
Elem(im, e) ==
    IF im.format \in Formats16
    THEN At(im.data, 2 * e) + 256 * At(im.data, 2 * e + 1)
    ELSE At(im.data, e)
NumElems(im) == IF im.format \in Formats16 THEN Len(im.data) \div 2 ELSE Len(im.data)

\* Element c of pixel (x, y) of an image, through its width and channels fields.
Pixel(im, x, y, c) == Elem(im, (y * im.width + x) * im.channels + c)

\* -------------------------------------------------------------------- state
VARIABLES
    image,   \* the fossil_image_t the operations act on (dst)
    src,     \* a second image: src of blend, overlay, source of the edge map
    last,    \* the last call: operation, arguments, result, image before it
    mem,     \* heap accounting: leaked buffers and memory faults
    nops,    \* number of calls made on the image since it was created
    out      \* what the last analysis call stored through its output pointers

vars == <<image, src, last, mem, nops, out>>

\* No image: a NULL fossil_image_t *.
NoImage ==
    [st |-> "null", width |-> 0, height |-> 0, channels |-> 0,
     format |-> FOSSIL_PIXEL_FORMAT_NONE, buf |-> "null", data |-> <<>>,
     size |-> 0, owns_data |-> FALSE]

NoArgs == <<0, 0, 0, 0>>
\* A call record: operation, arguments, result, the image and the second image
\* before the call, and the image before the call before it.
Call(op, args, ok, pre) ==
    [op |-> op, a |-> args, ok |-> ok, pre |-> pre, psrc |-> src,
     pre2 |-> IF last.op = op THEN last.pre ELSE NoImage,
     rep |-> last.op = op /\ last.a = args, alloc |-> "ok"]

CleanMem == [leaks |-> 0, fault |-> "none"]

\* Nothing stored yet through out_hist, out_entropy or out_brightness.
NoOut == [hist |-> <<>>, entropy |-> 0, brightness |-> <<0, 1>>]

Init ==
    /\ image = NoImage
    /\ src = NoImage
    /\ last = [op |-> "none", a |-> NoArgs, ok |-> FALSE, pre |-> NoImage,
               psrc |-> NoImage, pre2 |-> NoImage, rep |-> FALSE, alloc |-> "ok"]
    /\ mem = CleanMem
    /\ nops = 0
    /\ out = NoOut

\* An allocation of n bytes succeeds only if the allocator says so and the
\* machine has the memory; calloc(0) may return NULL or a unique pointer.
Allocates(n, calloc_ok) == calloc_ok /\ n <= MaxAlloc

\* ------------------------------------------------------------------- create
\* process.c:55-169.  The result is NoImage when the code returns NULL.
create_size(width, height, format) ==
    SZ(SZ(width * height) * create_bytes_per_pixel(format))

\* The argument test without its overflow comparison.
create_rejects_zero_only(width, height, format) ==
    \/ width = 0
    \/ height = 0
    \/ create_bytes_per_pixel(format) = 0

create_rejects(width, height, format) ==
    LET bpp == create_bytes_per_pixel(format)
        size == create_size(width, height, format)
    IN  \/ width = 0
        \/ height = 0
        \/ bpp = 0
        \/ (size \div bpp) \div width # height

process_create(width, height, format, calloc_ok) ==
    IF create_rejects(width, height, format) THEN NoImage
    ELSE IF ~Allocates(create_size(width, height, format), calloc_ok) THEN NoImage
    ELSE [st |-> "live", width |-> width, height |-> height,
          channels |-> create_channels(format), format |-> format,
          buf |-> "live",
          data |-> Zeros(Cells(format, create_size(width, height, format))),
          size |-> create_size(width, height, format), owns_data |-> TRUE]

CreateDims == (0 .. MaxDim) \cup {Pow2(U32Bits - 1), U32_MAX}
CreateFormats == Formats \cup {FOSSIL_PIXEL_FORMAT_NONE}

fossil_image_process_create(width, height, format, calloc_ok) ==
    /\ image.st = "null"
    /\ last.op = "none"
    /\ mem.fault = "none"
    /\ image' = process_create(width, height, format, calloc_ok)
    /\ last' = Call("create", <<width, height, format, IF calloc_ok THEN 1 ELSE 0>>,
                    image'.st = "live", image)
    /\ nops' = 0
    /\ UNCHANGED out
    /\ UNCHANGED <<src, mem>>

\* ------------------------------------------------- the caller fills a buffer
\* Tests and generators write the buffer directly (img->data[i] = v, memset).
\* Three fill patterns: pairwise distinct cells, a constant, a two-value
\* alternation.  Float cells are values in [0, 1].
Patterns == 1 .. 3
PatCell(format, p, k) ==
    IF is_float(format)
    THEN CASE p = 1 -> (k * 37 + 11) % (FScale + 1)
           [] p = 2 -> 500
           [] OTHER -> (k % 2) * FScale
    ELSE CASE p = 1 -> (k * 17 + 5) % 256
           [] p = 2 -> 200
           [] OTHER -> (k % 2) * 255
FillData(format, n, p) == [k \in 1 .. n |-> PatCell(format, p, k - 1)]

Fill(p) ==
    /\ image.st = "live" /\ image.buf = "live"
    /\ mem.fault = "none"
    /\ last.op = "create"
    /\ image' = [image EXCEPT !.data = FillData(image.format, Len(image.data), p)]
    /\ last' = Call("fill", <<p, 0, 0, 0>>, TRUE, image)
    /\ UNCHANGED <<src, mem, nops, out>>

\* ------------------------------------------------------------------ destroy
\* process.c:171-214.  The struct itself is released by free(image): a later
\* call on the same pointer reads and frees released memory.
fossil_image_process_destroy ==
    /\ mem.fault = "none"
    /\ last.op # "none"
    /\ \/ /\ image.st = "null"                    \* if (!image) return;
          /\ UNCHANGED <<image, mem>>
       \/ /\ image.st = "live"
          /\ image' = [NoImage EXCEPT !.st = "freed", !.format = image.format]
          /\ UNCHANGED mem
       \/ /\ image.st = "freed"                   \* image->owns_data read, free(image) again
          /\ mem' = [mem EXCEPT !.fault = "double_free"]
          /\ UNCHANGED image
    /\ last' = Call("destroy", NoArgs, TRUE, image)
    /\ nops' = nops
    /\ UNCHANGED out
    /\ UNCHANGED src

\* ------------------------------------------- outcome of a call on the image
\* ok: the value returned; image: the image after the call; leak: buffers
\* allocated by the call and neither installed nor freed; fault: a memory
\* error (undefined behaviour) the call ran into.
Outcome(ok, im, leak, fault) ==
    [ok |-> ok, image |-> im, leak |-> leak, fault |-> fault, alloc |-> "ok"]
Fails(im) == Outcome(FALSE, im, 0, "none")
\* The call found calloc returning NULL.
AllocFails(r) == [r EXCEPT !.alloc = "failed"]
Faults(im, fault) == Outcome(FALSE, im, 0, fault)

\* A call may be made on a fresh image, or repeats the previous call.
CanCall(op, args) ==
    /\ image.st = "live" \/ (image.st = "null" /\ last.op = "none")
    /\ mem.fault = "none"
    /\ \/ nops = 0 /\ last.op \in {"none", "fill", "declare"}
       \/ nops > 0 /\ nops < MaxOps /\ last.op = op /\ last.a = args

Apply(op, args, r) ==
    /\ CanCall(op, args)
    /\ image' = r.image
    /\ mem' = [leaks |-> mem.leaks + r.leak, fault |-> r.fault]
    /\ last' = [Call(op, args, r.ok, image) EXCEPT !.alloc = r.alloc]
    /\ nops' = nops + 1
    /\ UNCHANGED out

\* ------------------------------------------------------------------- resize
\* process.c:220-391
\* (uint32_t)((float)x * image->width / new_w): exact for operands below 2^24.
nearest_src(x, old, new) == (x * old) \div new

resize_nearest_cell(im, new_w, new_h, k) ==
    LET channels == im.channels
        p == k \div channels
        c == k % channels
        x == p % new_w
        y == p \div new_w
        src_x == nearest_src(x, im.width, new_w)
        src_y == nearest_src(y, im.height, new_h)
        src_i == SZ(U32(src_y * im.width + src_x) * channels)
    IN  IF p < new_w * new_h THEN At(im.data, src_i + c) ELSE 0

\* Bilinear sample, (uint8_t)(val + 0.5f) for integer buffers; the weights
\* wx = a / new_w and wy = b / new_h are kept as exact fractions.
resize_linear_cell(im, new_w, new_h, k) ==
    LET channels == im.channels
        p == k \div channels
        c == k % channels
        x == p % new_w
        y == p \div new_w
        y0 == (y * im.height) \div new_h
        y1 == IF y0 + 1 < im.height THEN y0 + 1 ELSE y0
        b == (y * im.height) % new_h
        x0 == (x * im.width) \div new_w
        x1 == IF x0 + 1 < im.width THEN x0 + 1 ELSE x0
        a == (x * im.width) % new_w
        p00 == At(im.data, SZ(U32(y0 * im.width + x0) * channels) + c)
        p01 == At(im.data, SZ(U32(y0 * im.width + x1) * channels) + c)
        p10 == At(im.data, SZ(U32(y1 * im.width + x0) * channels) + c)
        p11 == At(im.data, SZ(U32(y1 * im.width + x1) * channels) + c)
        num == (new_w - a) * (new_h - b) * p00 + a * (new_h - b) * p01
               + (new_w - a) * b * p10 + a * b * p11
        den == new_w * new_h
    IN  IF p < new_w * new_h THEN (2 * num + den) \div (2 * den) ELSE 0

resize_modes_nearest ==
    {FOSSIL_INTERP_NEAREST, FOSSIL_INTERP_CUBIC, FOSSIL_INTERP_LANCZOS,
     FOSSIL_INTERP_BICUBIC, FOSSIL_INTERP_MITCHELL, FOSSIL_INTERP_BSPLINE}

process_resize(im, new_w, new_h, mode, calloc_ok) ==
    LET channels == im.channels
        bytes_per_pixel == fossil_image_bytes_per_pixel(im.format)
        new_size == SZ(SZ(new_w * new_h) * bytes_per_pixel)
        n == Cells(im.format, new_size)
        \* cells the loops write and read
        lastdst == SZ(U32((new_h - 1) * new_w + (new_w - 1)) * channels) + channels
        lastsrc == SZ(U32((im.height - 1) * im.width + (im.width - 1)) * channels) + channels
        new_buffer ==
            [k \in 1 .. n |->
                IF mode = FOSSIL_INTERP_LINEAR
                THEN resize_linear_cell(im, new_w, new_h, k - 1)
                ELSE resize_nearest_cell(im, new_w, new_h, k - 1)]
    IN  IF im.st = "null" THEN Fails(im)
        ELSE IF new_w = 0 \/ new_h = 0 THEN Fails(im)
        ELSE IF ~Allocates(new_size, calloc_ok) THEN AllocFails(Fails(im))
        ELSE IF mode # FOSSIL_INTERP_LINEAR /\ mode \notin resize_modes_nearest
             THEN Fails(im)                        \* free(new_buffer); return false
        ELSE IF im.buf = "null" THEN Faults(im, "null_deref")
        ELSE IF channels > 0 /\ (lastdst > n \/ lastsrc > Len(im.data))
             THEN Faults(im, "out_of_bounds")
        ELSE Outcome(TRUE,
                     [im EXCEPT !.data = new_buffer, !.width = new_w,
                                !.height = new_h, !.size = new_size],
                     0, "none")

ResizeDims == ((0 .. MaxDim) \X (0 .. MaxDim)) \cup {<<Pow2(U32Bits - 1), Pow2(U32Bits - 1)>>}
ResizeModes == {FOSSIL_INTERP_NEAREST, FOSSIL_INTERP_LINEAR, FOSSIL_INTERP_LANCZOS, 7}

fossil_image_process_resize(new_w, new_h, mode, calloc_ok) ==
    /\ Apply("resize", <<new_w, new_h, mode, IF calloc_ok THEN 1 ELSE 0>>,
             process_resize(image, new_w, new_h, mode, calloc_ok))
    /\ UNCHANGED src

\* --------------------------------------------------------------------- crop
\* process.c:393-452
crop_row_copied(im, x, y, w, h, j) ==
    LET channels == im.channels
        src_idx == SZ(U32(U32(y + j) * im.width + x) * channels)
        dst_idx == SZ(U32(j * w) * channels)
    IN  /\ SZ(src_idx + SZ(w * channels)) <= SZ(U32(im.width * im.height) * channels)
        /\ SZ(dst_idx + SZ(w * channels)) <= SZ(U32(w * h) * channels)

crop_cell(im, x, y, w, h, k) ==
    LET channels == im.channels
        row == w * channels
        j == IF row = 0 THEN 0 ELSE k \div row
        src_idx == SZ(U32(U32(y + j) * im.width + x) * channels)
        dst_idx == SZ(U32(j * w) * channels)
    IN  IF row > 0 /\ j < h /\ crop_row_copied(im, x, y, w, h, j)
        THEN At(im.data, src_idx + (k - dst_idx))
        ELSE 0

crop_buffer(im, x, y, w, h, n) == [k \in 1 .. n |-> crop_cell(im, x, y, w, h, k - 1)]

\* The float branch frees the old buffer and installs the new one
\* (process.c:430-431); the integer branch does neither (process.c:433-446).
crop_installs(format) == is_float(format)

process_crop(im, x, y, w, h, calloc_ok) ==
    LET bytes_per_pixel == fossil_image_bytes_per_pixel(im.format)
        new_size == SZ(SZ(w * h) * bytes_per_pixel)
        n == Cells(im.format, new_size)
    IN  IF im.st = "null" THEN Fails(im)
        ELSE IF U32(x + w) > im.width \/ U32(y + h) > im.height THEN Fails(im)
        ELSE IF ~Allocates(new_size, calloc_ok) THEN AllocFails(Fails(im))
        ELSE IF im.buf = "null" /\ w > 0 /\ h > 0 THEN Faults(im, "null_deref")
        ELSE IF crop_installs(im.format)
        THEN Outcome(TRUE,
                     [im EXCEPT !.data = crop_buffer(im, x, y, w, h, n),
                                !.width = w, !.height = h, !.size = new_size],
                     0, "none")
        ELSE Outcome(TRUE,
                     [im EXCEPT !.width = w, !.height = h, !.size = new_size],
                     1, "none")

CropOrigins == {0, 1, U32_MAX}
CropExtents == 0 .. (MaxDim - 1)

fossil_image_process_crop(x, y, w, h, calloc_ok) ==
    /\ Apply("crop", <<x, y, w, h, IF calloc_ok THEN 1 ELSE 0>>,
             process_crop(image, x, y, w, h, calloc_ok))
    /\ UNCHANGED src

\* --------------------------------------------------------------------- flip
\* process.c:454-514
flip_cell(im, horizontal, vertical, n, k) ==
    LET w == im.width
        h == im.height
        c == im.channels
        p == IF c = 0 THEN 0 ELSE k \div c
        x == IF w = 0 THEN 0 ELSE p % w
        y == IF w = 0 THEN 0 ELSE p \div w
        sx == IF horizontal THEN U32(w - 1 - x) ELSE x
        sy == IF vertical THEN U32(h - 1 - y) ELSE y
        src_idx == SZ(U32(sy * w + sx) * c)
        dst_idx == SZ(U32(y * w + x) * c)
    IN  IF c > 0 /\ p < w * h /\ src_idx + c <= n /\ dst_idx + c <= n
        THEN At(im.data, src_idx + (k - dst_idx))
        ELSE 0

process_flip(im, horizontal, vertical, calloc_ok) ==
    LET n == Cells(im.format, im.size)
        temp == [k \in 1 .. n |-> flip_cell(im, horizontal, vertical, n, k - 1)]
    IN  IF im.st = "null" THEN Fails(im)
        ELSE IF im.buf = "null" THEN Fails(im)
        ELSE IF ~Allocates(im.size, calloc_ok) THEN AllocFails(Fails(im))
        ELSE IF n > Len(im.data) THEN Faults(im, "out_of_bounds")
        ELSE Outcome(TRUE,
                     [im EXCEPT !.data = [k \in 1 .. Len(im.data) |->
                                            IF k <= n THEN temp[k] ELSE im.data[k]]],
                     0, "none")

fossil_image_process_flip(horizontal, vertical, calloc_ok) ==
    /\ Apply("flip", <<IF horizontal THEN 1 ELSE 0, IF vertical THEN 1 ELSE 0,
                       IF calloc_ok THEN 1 ELSE 0, 0>>,
             process_flip(image, horizontal, vertical, calloc_ok))
    /\ UNCHANGED src

\* ------------------------------------------------------------------- invert
\* process.c:938-978
\* Inversion against the 8-bit maximum whatever the element width.
invert_elem_8bit(format, v) ==
    IF is_float(format) THEN FScale - v ELSE (255 - v) % 256

invert_elem(format, v) ==
    IF format \in Formats16 THEN (65535 - v) % 65536
    ELSE IF format \in Formats8 THEN (255 - v) % 256
    ELSE FScale - v

\* Store element values of a 16-bit buffer back as its bytes.
Bytes16(elems, len) ==
    [k \in 1 .. len |->
        IF (k - 1) \div 2 < Len(elems)
        THEN IF (k - 1) % 2 = 0 THEN elems[(k - 1) \div 2 + 1] % 256
                                ELSE elems[(k - 1) \div 2 + 1] \div 256
        ELSE 0]

\* Store vals[e + 1] into element e of the buffer for the first npixels
\* elements; a 16-bit element is stored as its two bytes.
StoreElems(im, npixels, vals) ==
    IF im.format \in Formats16
    THEN [k \in 1 .. Len(im.data) |->
            LET e == (k - 1) \div 2
            IN  IF e < npixels
                THEN IF (k - 1) % 2 = 0 THEN vals[e + 1] % 256 ELSE vals[e + 1] \div 256
                ELSE im.data[k]]
    ELSE [k \in 1 .. Len(im.data) |->
            IF k - 1 < npixels THEN vals[k] ELSE im.data[k]]

\* size_t npixels = (size_t)width * height * channels
elem_count(im) == SZ(SZ(im.width * im.height) * im.channels)

process_invert(im) ==
    LET npixels == elem_count(im)
        inv == [e \in 1 .. NumElems(im) |-> invert_elem(im.format, Elem(im, e - 1))]
    IN  IF im.st = "null" THEN Fails(im)
        ELSE IF im.format \notin Formats THEN Fails(im)
        ELSE IF im.buf = "null" THEN Fails(im)
        ELSE IF npixels > NumElems(im) THEN Faults(im, "out_of_bounds")
        ELSE Outcome(TRUE, [im EXCEPT !.data = StoreElems(im, npixels, inv)], 0, "none")

fossil_image_process_invert ==
    /\ Apply("invert", NoArgs, process_invert(image))
    /\ UNCHANGED src

\* ------------------------------------------------------------------- rotate
\* process.c:516-587.  Angles are multiples of 90 degrees, for which cosf and
\* sinf are -1, 0 or 1 up to an error far below the rounding step of
\* (int)(rx + 0.5f).
RotDegrees == {0, 90, 180, 270}
cos_a(degrees) == CASE degrees = 0 -> 1 [] degrees = 180 -> -1 [] OTHER -> 0
sin_a(degrees) == CASE degrees = 90 -> 1 [] degrees = 270 -> -1 [] OTHER -> 0

\* (int)(r + 0.5f) for an integral r: the conversion truncates toward zero.
round_half(r) == IF r >= 0 THEN r ELSE r + 1

rotate_irx(w, h, degrees, x, y) ==
    round_half(cos_a(degrees) * (x - w \div 2) - sin_a(degrees) * (y - h \div 2) + w \div 2)
rotate_iry(w, h, degrees, x, y) ==
    round_half(sin_a(degrees) * (x - w \div 2) + cos_a(degrees) * (y - h \div 2) + h \div 2)
rotate_inside(w, h, degrees, x, y) ==
    /\ rotate_irx(w, h, degrees, x, y) >= 0 /\ rotate_irx(w, h, degrees, x, y) < w
    /\ rotate_iry(w, h, degrees, x, y) >= 0 /\ rotate_iry(w, h, degrees, x, y) < h

rotate_cell(im, degrees, k) ==
    LET w == im.width
        h == im.height
        c == im.channels
        p == IF c = 0 THEN 0 ELSE k \div c
        x == IF w = 0 THEN 0 ELSE p % w
        y == IF w = 0 THEN 0 ELSE p \div w
        src_idx == SZ(U32(rotate_iry(w, h, degrees, x, y) * w
                          + rotate_irx(w, h, degrees, x, y)) * c)
        dst_idx == SZ(U32(y * w + x) * c)
    IN  IF c > 0 /\ p < w * h /\ rotate_inside(w, h, degrees, x, y)
        THEN At(im.data, src_idx + (k - dst_idx))
        ELSE 0

process_rotate(im, degrees, calloc_ok) ==
    LET n == Cells(im.format, im.size)
        touched == SZ(U32(im.width * im.height) * im.channels)
    IN  IF im.st = "null" THEN Fails(im)
        ELSE IF ~Allocates(im.size, calloc_ok) THEN AllocFails(Fails(im))
        ELSE IF im.buf = "null" /\ touched > 0 THEN Faults(im, "null_deref")
        ELSE IF touched > n \/ touched > Len(im.data) THEN Faults(im, "out_of_bounds")
        ELSE Outcome(TRUE,
                     [im EXCEPT !.data = [k \in 1 .. n |-> rotate_cell(im, degrees, k - 1)],
                                !.buf = "live"],
                     0, "none")

fossil_image_process_rotate(degrees, calloc_ok) ==
    /\ Apply("rotate", <<degrees, IF calloc_ok THEN 1 ELSE 0, 0, 0>>,
             process_rotate(image, degrees, calloc_ok))
    /\ UNCHANGED src

\* ---------------------------------------------------------------- grayscale
\* process.c:743-888.  (uint8_t)(0.299 * r + 0.587 * g + 0.114 * b): the
\* weighted sum is taken exactly and truncated.
luma(r, g, b) == (299 * r + 587 * g + 114 * b) \div 1000
luma_f(r, g, b) == (2 * (299 * r + 587 * g + 114 * b) + 1000) \div 2000

grayscale_format(format) ==
    CASE format \in {FOSSIL_PIXEL_FORMAT_RGB24, FOSSIL_PIXEL_FORMAT_RGBA32,
                     FOSSIL_PIXEL_FORMAT_YUV24} -> FOSSIL_PIXEL_FORMAT_GRAY8
      [] format \in {FOSSIL_PIXEL_FORMAT_RGB48, FOSSIL_PIXEL_FORMAT_RGBA64}
                     -> FOSSIL_PIXEL_FORMAT_GRAY16
      [] OTHER -> FOSSIL_PIXEL_FORMAT_FLOAT32

\* Width in elements of a pixel as the case of the switch hard-codes it.
grayscale_stride(format) ==
    IF format \in {FOSSIL_PIXEL_FORMAT_RGB24, FOSSIL_PIXEL_FORMAT_RGB48,
                   FOSSIL_PIXEL_FORMAT_FLOAT32_RGB, FOSSIL_PIXEL_FORMAT_YUV24}
    THEN 3 ELSE 4

grayscale_elem(im, stride, i, yuv_takes_y) ==
    LET r == Elem(im, i * stride)
        g == Elem(im, i * stride + 1)
        b == Elem(im, i * stride + 2)
    IN  IF yuv_takes_y /\ im.format = FOSSIL_PIXEL_FORMAT_YUV24 THEN r
        ELSE IF is_float(im.format) THEN luma_f(r, g, b)
        ELSE luma(r, g, b)

\* The new single-channel buffer of npixels elements.
grayscale_buffer(im, stride, npixels, yuv_takes_y) ==
    LET elems == [i \in 1 .. npixels |-> grayscale_elem(im, stride, i - 1, yuv_takes_y)]
    IN  IF im.format \in Formats16 THEN Bytes16(elems, 2 * npixels) ELSE elems

grayscale_sources ==
    {FOSSIL_PIXEL_FORMAT_RGB24, FOSSIL_PIXEL_FORMAT_RGBA32, FOSSIL_PIXEL_FORMAT_RGB48,
     FOSSIL_PIXEL_FORMAT_RGBA64, FOSSIL_PIXEL_FORMAT_FLOAT32_RGB,
     FOSSIL_PIXEL_FORMAT_FLOAT32_RGBA, FOSSIL_PIXEL_FORMAT_YUV24}

process_grayscale(im, calloc_ok) ==
    LET npixels == SZ(im.width * im.height)
        stride == grayscale_stride(im.format)
        gray == grayscale_format(im.format)
        new_size == SZ(npixels * BytesPerElement(gray))
    IN  IF im.st = "null" THEN Fails(im)
        ELSE IF im.format \notin grayscale_sources THEN Fails(im)
        ELSE IF im.buf = "null" THEN Fails(im)
        ELSE IF ~Allocates(new_size, calloc_ok) THEN AllocFails(Fails(im))
        ELSE IF npixels * stride > NumElems(im) THEN Faults(im, "out_of_bounds")
        ELSE Outcome(TRUE,
                     [im EXCEPT !.data = grayscale_buffer(im, stride, npixels, TRUE),
                                !.channels = 1, !.format = gray, !.size = new_size],
                     0, "none")

fossil_image_process_grayscale(calloc_ok) ==
    /\ Apply("grayscale", <<IF calloc_ok THEN 1 ELSE 0, 0, 0, 0>>,
             process_grayscale(image, calloc_ok))
    /\ UNCHANGED src

\* ------------------------------------------------------- colour to-grayscale
\* unnamed/part_005:398-485 (colour sub-library)
to_grayscale_sources ==
    {FOSSIL_PIXEL_FORMAT_RGB24, FOSSIL_PIXEL_FORMAT_RGBA32, FOSSIL_PIXEL_FORMAT_YUV24,
     FOSSIL_PIXEL_FORMAT_INDEXED8, FOSSIL_PIXEL_FORMAT_RGB48, FOSSIL_PIXEL_FORMAT_RGBA64,
     FOSSIL_PIXEL_FORMAT_FLOAT32_RGB, FOSSIL_PIXEL_FORMAT_FLOAT32_RGBA}
to_grayscale_noop ==
    {FOSSIL_PIXEL_FORMAT_GRAY8, FOSSIL_PIXEL_FORMAT_GRAY16, FOSSIL_PIXEL_FORMAT_FLOAT32}

color_to_grayscale(im, calloc_ok) ==
    LET npixels == SZ(im.width * im.height)
        gray == IF im.format = FOSSIL_PIXEL_FORMAT_INDEXED8
                THEN FOSSIL_PIXEL_FORMAT_GRAY8 ELSE grayscale_format(im.format)
        new_size == SZ(npixels * BytesPerElement(gray))
    IN  IF im.st = "null" THEN Fails(im)
        ELSE IF im.format \in to_grayscale_noop THEN Outcome(TRUE, im, 0, "none")
        ELSE IF im.format \notin to_grayscale_sources THEN Fails(im)
        ELSE IF im.buf = "null" \/ im.channels < 3 THEN Fails(im)
        ELSE IF ~Allocates(new_size, calloc_ok) THEN AllocFails(Fails(im))
        ELSE IF npixels * im.channels > NumElems(im) THEN Faults(im, "out_of_bounds")
        ELSE Outcome(TRUE,
                     [im EXCEPT !.data = grayscale_buffer(im, im.channels, npixels, FALSE),
                                !.channels = 1, !.format = gray, !.size = new_size,
                                !.owns_data = TRUE],
                     0, "none")

fossil_image_color_to_grayscale(calloc_ok) ==
    /\ Apply("to_grayscale", <<IF calloc_ok THEN 1 ELSE 0, 0, 0, 0>>,
             color_to_grayscale(image, calloc_ok))
    /\ UNCHANGED src

\* ------------------------------------------------- images the caller supplies
\* A second image as the caller builds it: create, then fill with a pattern.
MakeImage(width, height, format, p) ==
    LET im == process_create(width, height, format, TRUE)
    IN  IF im.st = "live"
        THEN [im EXCEPT !.data = FillData(format, Len(im.data), p)]
        ELSE im

\* fossil_image_t dst = {0}: a live struct without a buffer.
EmptyImage == [NoImage EXCEPT !.st = "live"]

Declare ==
    /\ image.st = "null" /\ last.op = "none"
    /\ image' = EmptyImage
    /\ last' = Call("declare", NoArgs, TRUE, image)
    /\ UNCHANGED <<src, mem, nops, out>>

\* -------------------------------------------------------------------- blend
\* process.c:589-646.  ratio is the fraction num / den; the interpolation
\* (1 - ratio) * d + ratio * s is taken exactly, then (T)(blended + 0.5f).
blend_clamp(num, den) == IF num < 0 THEN 0 ELSE IF num > den THEN den ELSE num

blend_value(format, num, den, d, s) ==
    LET r == blend_clamp(num, den)
        twice == 2 * ((den - r) * d + r * s)
        top == MaxValue(format)
    IN  IF is_float(format) THEN (twice + den) \div (2 * den)
        ELSE IF twice > 2 * den * top THEN top
        ELSE ((twice + den) \div (2 * den)) % (top + 1)

\* Number of elements the loop of the branch visits.
blend_count(dst) ==
    LET npixels == elem_count(dst)
        bytes_per_pixel == fossil_image_bytes_per_pixel(dst.format)
    IN  IF dst.format \in Formats16 THEN SZ(npixels * (bytes_per_pixel \div 2))
        ELSE npixels

blend_data(dst, s, num, den) ==
    LET mix == [e \in 1 .. NumElems(dst) |->
                   blend_value(dst.format, num, den, Elem(dst, e - 1), Elem(s, e - 1))]
    IN  StoreElems(dst, blend_count(dst), mix)

\* What the call leaves in dst and src.  When the loop runs past the end of
\* the two buffers it reads and writes the heap beyond them: the elements
\* inside dst are blended, and the writes beyond dst land in whatever the
\* allocator placed there, possibly the buffer of src.  At ratio 0 every
\* store writes back the value just read, so only a ratio above 0 can change
\* what lies beyond dst.
process_blend(dst, s, num, den) ==
    IF dst.st = "null" \/ s.st = "null" THEN {[r |-> Fails(dst), src |-> s]}
    ELSE IF dst.width # s.width \/ dst.height # s.height
            \/ dst.channels # s.channels \/ dst.format # s.format
         THEN {[r |-> Fails(dst), src |-> s]}
    ELSE IF dst.buf = "null" \/ s.buf = "null" THEN {[r |-> Fails(dst), src |-> s]}
    ELSE IF blend_count(dst) > NumElems(dst) \/ blend_count(dst) > NumElems(s)
         THEN {[r |-> Outcome(TRUE, [dst EXCEPT !.data = blend_data(dst, s, num, den)],
                              0, "out_of_bounds"),
                src |-> t] :
               t \in IF blend_clamp(num, den) = 0 THEN {s}
                     ELSE {s, [s EXCEPT !.data = [k \in 1 .. Len(s.data) |->
                                                    At(dst.data, k - 1)]]}}
    ELSE {[r |-> Outcome(TRUE, [dst EXCEPT !.data = blend_data(dst, s, num, den)],
                         0, "none"),
           src |-> s]}

\* Ratios 0, 1/2, 1 and two values outside [0, 1].
Ratios == {<<0, 1>>, <<1, 2>>, <<1, 1>>, <<-1, 2>>, <<3, 2>>}

\* Second images for a blend: the shape of the image in each pattern, a
\* different width, a different format, and NULL.
BlendSources(im) ==
    {MakeImage(im.width, im.height, im.format, p) : p \in Patterns}
    \cup {MakeImage(im.width + 1, im.height, im.format, 1),
          MakeImage(im.width, im.height, FOSSIL_PIXEL_FORMAT_GRAY8, 1),
          MakeImage(im.width, im.height, FOSSIL_PIXEL_FORMAT_RGB24, 1), NoImage}

fossil_image_process_blend(s, num, den) ==
    /\ CanCall("blend", <<num, den, s.width, s.format>>)
    /\ nops = 0 \/ s = src
    /\ \E o \in process_blend(image, s, num, den) :
          /\ image' = o.r.image
          /\ src' = o.src
          /\ mem' = [leaks |-> mem.leaks + o.r.leak, fault |-> o.r.fault]
          /\ last' = [Call("blend", <<num, den, s.width, s.format>>, o.r.ok, image)
                        EXCEPT !.psrc = s]
          /\ nops' = nops + 1
          /\ UNCHANGED out

\* --------------------------------------------------------------- Sobel edges
\* analyze.c:316-399.  dst is the image; the luminance of a source pixel is
\* taken as the integer nearest below the float the code computes.
isqrt255(m) == CHOOSE r \in 0 .. 255 : r * r <= m /\ (r = 255 \/ (r + 1) * (r + 1) > m)

sobel_pixel(s, idx) ==
    LET f == s.format
        c == s.channels
    IN  CASE f \in {FOSSIL_PIXEL_FORMAT_GRAY8, FOSSIL_PIXEL_FORMAT_INDEXED8,
                    FOSSIL_PIXEL_FORMAT_YUV24} -> At(s.data, idx)
          [] f \in {FOSSIL_PIXEL_FORMAT_RGB24, FOSSIL_PIXEL_FORMAT_RGBA32} ->
                luma(At(s.data, idx * c), At(s.data, idx * c + 1), At(s.data, idx * c + 2))
          [] f = FOSSIL_PIXEL_FORMAT_GRAY16 -> (Elem(s, idx) * 255) \div 65535
          [] f \in {FOSSIL_PIXEL_FORMAT_RGB48, FOSSIL_PIXEL_FORMAT_RGBA64} ->
                luma(Elem(s, idx * c), Elem(s, idx * c + 1), Elem(s, idx * c + 2)) \div 257
          [] f = FOSSIL_PIXEL_FORMAT_FLOAT32 ->
                (Max(0, Min(At(s.data, idx), FScale)) * 255) \div FScale
          [] f \in {FOSSIL_PIXEL_FORMAT_FLOAT32_RGB, FOSSIL_PIXEL_FORMAT_FLOAT32_RGBA} ->
                (luma(At(s.data, idx * c), At(s.data, idx * c + 1),
                      At(s.data, idx * c + 2)) * 255) \div FScale
          [] OTHER -> 0

sobel_gx == <<<<-1, 0, 1>>, <<-2, 0, 2>>, <<-1, 0, 1>>>>
sobel_gy == <<<<-1, -2, -1>>, <<0, 0, 0>>, <<1, 2, 1>>>>

RECURSIVE sobel_sum(_, _, _, _, _)
sobel_sum(s, g, x, y, i) ==
    IF i = 9 THEN 0
    ELSE LET ky == (i \div 3) - 1
             kx == (i % 3) - 1
         IN  g[ky + 2][kx + 2] * sobel_pixel(s, U32(U32(y + ky) * s.width + U32(x + kx)))
             + sobel_sum(s, g, x, y, i + 1)

sobel_cell(s, k) ==
    LET x == k % s.width
        y == k \div s.width
        sumx == sobel_sum(s, sobel_gx, x, y, 0)
        sumy == sobel_sum(s, sobel_gy, x, y, 0)
    IN  IF x >= 1 /\ x < s.width - 1 /\ y >= 1 /\ y < s.height - 1
        THEN isqrt255(sumx * sumx + sumy * sumy)
        ELSE 0

\* The fields of dst are written, and its buffer pointer replaced, before the
\* result of calloc is tested (analyze.c:324-333).
sobel_fields(dst, s, calloc_ok) ==
    [dst EXCEPT !.width = s.width, !.height = s.height, !.channels = 1,
                !.format = FOSSIL_PIXEL_FORMAT_GRAY8,
                !.size = SZ(s.width * s.height),
                !.buf = IF Allocates(SZ(s.width * s.height), calloc_ok)
                        THEN "live" ELSE "null",
                !.data = IF Allocates(SZ(s.width * s.height), calloc_ok)
                         THEN [k \in 1 .. SZ(s.width * s.height) |-> sobel_cell(s, k - 1)]
                         ELSE <<>>,
                !.owns_data = TRUE]

analyze_edge_sobel(dst, s, calloc_ok) ==
    IF s.st = "null" \/ dst.st = "null" THEN Fails(dst)
    ELSE IF s.width < 3 \/ s.height < 3 THEN Fails(dst)
    ELSE IF ~Allocates(SZ(s.width * s.height), calloc_ok)
         THEN AllocFails(Outcome(FALSE, sobel_fields(dst, s, calloc_ok),
                                 IF dst.buf = "live" THEN 1 ELSE 0, "none"))
    ELSE Outcome(TRUE, sobel_fields(dst, s, calloc_ok),
                 IF dst.buf = "live" THEN 1 ELSE 0, "none")

SobelSources ==
    {MakeImage(MaxDim, 3, f, 1) : f \in Formats}
    \cup {MakeImage(2, 3, FOSSIL_PIXEL_FORMAT_GRAY8, 1), NoImage}

fossil_image_analyze_edge_sobel(s, calloc_ok) ==
    /\ Apply("edge_sobel", <<s.width, s.height, s.format, IF calloc_ok THEN 1 ELSE 0>>,
             analyze_edge_sobel(image, s, calloc_ok))
    /\ src' = s

\* ---------------------------------------------------------------- composite
\* process.c:648-741.  alpha is the fraction num / den, clamped as in blend.
\* Number of elements the size field of an image stands for.
size_elems(im) ==
    IF is_float(im.format) THEN im.size \div SizeofFloat
    ELSE IF im.format \in Formats16 THEN im.size \div 2
    ELSE im.size

\* The bounds test taken on the 32-bit sums x + w and y + h.
composite_rejects_sum(dst, overlay, x, y) ==
    \/ dst.channels # overlay.channels \/ dst.format # overlay.format
    \/ U32(x + overlay.width) > dst.width \/ U32(y + overlay.height) > dst.height

\* The argument tests before the loops.
composite_rejects(dst, overlay, x, y) ==
    \/ dst.channels # overlay.channels \/ dst.format # overlay.format
    \/ x >= dst.width \/ y >= dst.height
    \/ overlay.width > dst.width - x \/ overlay.height > dst.height - y

\* A region without right and lower edge.
composite_inside_open(overlay, x, y, dx, dy) == dx >= x /\ dy >= y

\* The loops visit (dx, dy) = (x + i, y + j) for i < w, j < h.
composite_inside(overlay, x, y, dx, dy) ==
    /\ dx >= x /\ dx - x < overlay.width
    /\ dy >= y /\ dy - y < overlay.height

\* Element e of dst after the loops.
composite_elem(dst, overlay, x, y, num, den, e) ==
    LET c == dst.channels
        p == e \div c
        k == e % c
        dx == p % dst.width
        dy == p \div dst.width
        di == (dy * dst.width + dx) * c
        si == ((dy - y) * overlay.width + (dx - x)) * c
    IN  IF /\ composite_inside(overlay, x, y, dx, dy)
           /\ di + c <= size_elems(dst)
           /\ si + c <= size_elems(overlay)
        THEN blend_value(dst.format, num, den, Elem(dst, e), Elem(overlay, si + k))
        ELSE Elem(dst, e)

process_composite(dst, overlay, x, y, num, den) ==
    IF dst.st = "null" \/ overlay.st = "null" THEN Fails(dst)
    ELSE IF composite_rejects(dst, overlay, x, y) THEN Fails(dst)
    ELSE IF dst.buf = "null" \/ overlay.buf = "null" THEN Fails(dst)
    ELSE IF size_elems(dst) > NumElems(dst) \/ size_elems(overlay) > NumElems(overlay)
         THEN Faults(dst, "out_of_bounds")
    ELSE Outcome(TRUE,
                 [dst EXCEPT !.data =
                     StoreElems(dst, NumElems(dst),
                                [e \in 1 .. NumElems(dst) |->
                                    composite_elem(dst, overlay, x, y, num, den, e - 1)])],
                 0, "none")

\* Overlays: one column of two pixels, the shape of dst, one column wider,
\* another format, NULL.
CompositeSources(im) ==
    {MakeImage(1, 2, im.format, 1)}
    \cup {MakeImage(im.width, im.height, im.format, p) : p \in {1, 3}}
    \cup {MakeImage(im.width + 1, im.height, im.format, 1),
          MakeImage(1, 1, FOSSIL_PIXEL_FORMAT_GRAY8, 1),
          MakeImage(1, 1, FOSSIL_PIXEL_FORMAT_RGB24, 1), NoImage}
CompositeOrigins == {0, 1, U32_MAX}
Alphas == {<<0, 1>>, <<1, 2>>, <<1, 1>>, <<3, 2>>}

fossil_image_process_composite(overlay, x, y, num, den) ==
    /\ CanCall("composite", <<x, y, num, den, overlay.width, overlay.format>>)
    /\ nops = 0 \/ overlay = src
    /\ LET r == process_composite(image, overlay, x, y, num, den)
       IN  /\ image' = r.image
           /\ mem' = [leaks |-> mem.leaks + r.leak, fault |-> r.fault]
           /\ last' = [Call("composite", <<x, y, num, den, overlay.width, overlay.format>>,
                            r.ok, image) EXCEPT !.psrc = overlay]
    /\ src' = overlay
    /\ nops' = nops + 1
    /\ UNCHANGED out

\* ------------------------------------------------------------------ filters
\* filter.c:43-149.  A kernel is the row-major 9-tuple of its (integer)
\* entries, scale the fraction snum / sden, bias an integer (in units of 1.0
\* for float formats).  The element values of an image, as a sequence:
ElemsOf(im) == [e \in 1 .. NumElems(im) |-> Elem(im, e - 1)]

\* src[((y + ky) * w + (x + kx)) * c + ch] * kernel[ky + 1][kx + 1], tap i = 0..8
conv_tap(elems, w, c, kernel, x, y, ch, i) ==
    LET ky == (i \div 3) - 1
        kx == (i % 3) - 1
    IN  At(elems, ((y + ky) * w + (x + kx)) * c + ch) * kernel[i + 1]

conv_sum(elems, w, c, kernel, x, y, ch) ==
    conv_tap(elems, w, c, kernel, x, y, ch, 0) + conv_tap(elems, w, c, kernel, x, y, ch, 1)
    + conv_tap(elems, w, c, kernel, x, y, ch, 2) + conv_tap(elems, w, c, kernel, x, y, ch, 3)
    + conv_tap(elems, w, c, kernel, x, y, ch, 4) + conv_tap(elems, w, c, kernel, x, y, ch, 5)
    + conv_tap(elems, w, c, kernel, x, y, ch, 6) + conv_tap(elems, w, c, kernel, x, y, ch, 7)
    + conv_tap(elems, w, c, kernel, x, y, ch, 8)

\* sum * scale + bias as the format stores it: clamp8 / the 16-bit clamp and
\* the truncating cast, or the float itself.
conv_store(format, sum, snum, sden, bias) ==
    IF is_float(format) THEN (sum * snum) \div sden + bias * FScale
    ELSE LET top == MaxValue(format)
             num == sum * snum + bias * sden
         IN  IF num < 0 THEN 0
             ELSE IF num > top * sden THEN top
             ELSE num \div sden

conv_interior(w, h, x, y) == x >= 1 /\ x < w - 1 /\ y >= 1 /\ y < h - 1

\* Element e (0-based) of the calloc'ed buffer dst after the loops.
conv_elem(elems, im, kernel, snum, sden, bias, e) ==
    LET c == im.channels
        p == e \div c
        x == p % im.width
        y == p \div im.width
    IN  IF p < im.width * im.height /\ conv_interior(im.width, im.height, x, y)
        THEN conv_store(im.format, conv_sum(elems, im.width, c, kernel, x, y, e % c),
                        snum, sden, bias)
        ELSE 0

\* The loops run on the image's own buffer: element e is computed from the
\* elements as rewritten so far.
RECURSIVE conv_in_place(_, _, _, _, _, _, _)
conv_in_place(elems, im, kernel, snum, sden, bias, e) ==
    IF e >= Len(elems) THEN elems
    ELSE LET p == e \div im.channels
             inside == conv_interior(im.width, im.height, p % im.width, p \div im.width)
             v == IF inside THEN conv_elem(elems, im, kernel, snum, sden, bias, e)
                  ELSE elems[e + 1]
         IN  conv_in_place([elems EXCEPT ![e + 1] = v], im, kernel, snum, sden, bias, e + 1)

convolve_in_place(im, kernel, snum, sden, bias) ==
    LET done == conv_in_place(ElemsOf(im), im, kernel, snum, sden, bias, 0)
    IN  [e \in 1 .. NumElems(im) |->
            IF conv_interior(im.width, im.height, ((e - 1) \div im.channels) % im.width,
                             ((e - 1) \div im.channels) \div im.width)
            THEN done[e] ELSE 0]

\* The buffer dst that is copied back over the image.
convolve_buffer(im, kernel, snum, sden, bias) ==
    [e \in 1 .. NumElems(im) |->
        conv_elem(ElemsOf(im), im, kernel, snum, sden, bias, e - 1)]

\* The convolution without its test of the image's shape.
filter_convolve3x3_unguarded(im, kernel, snum, sden, bias, calloc_ok) ==
    LET pixel_count == U32(im.width * im.height)
        bytes == IF is_float(im.format) THEN SZ(SZ(pixel_count * im.channels) * SizeofFloat)
                 ELSE im.size
    IN  IF im.st = "null" THEN Fails(im)
        ELSE IF im.format \notin Formats THEN Fails(im)
        ELSE IF ~Allocates(bytes, calloc_ok) THEN AllocFails(Fails(im))
        ELSE IF im.buf = "null" THEN Faults(im, "null_deref")
        ELSE IF pixel_count * im.channels > NumElems(im) \/ size_elems(im) > NumElems(im)
             THEN Faults(im, "out_of_bounds")
        ELSE Outcome(TRUE,
                     [im EXCEPT !.data =
                         StoreElems(im, IF is_float(im.format) THEN pixel_count * im.channels
                                        ELSE size_elems(im),
                                    convolve_buffer(im, kernel, snum, sden, bias))],
                     0, "none")

filter_convolve3x3(im, kernel, snum, sden, bias, calloc_ok) ==
    LET pixel_count == U32(im.width * im.height)
        bytes == IF is_float(im.format) THEN SZ(SZ(pixel_count * im.channels) * SizeofFloat)
                 ELSE im.size
    IN  IF im.st = "null" THEN Fails(im)
        ELSE IF im.channels = 0 \/ im.width < 3 \/ im.height < 3 THEN Fails(im)
        ELSE IF im.format \notin Formats THEN Fails(im)
        ELSE IF ~Allocates(bytes, calloc_ok) THEN AllocFails(Fails(im))
        ELSE IF im.buf = "null" THEN Faults(im, "null_deref")
        ELSE IF pixel_count * im.channels > NumElems(im) \/ size_elems(im) > NumElems(im)
             THEN Faults(im, "out_of_bounds")
        ELSE Outcome(TRUE,
                     [im EXCEPT !.data =
                         StoreElems(im, IF is_float(im.format) THEN pixel_count * im.channels
                                        ELSE size_elems(im),
                                    convolve_buffer(im, kernel, snum, sden, bias))],
                     0, "none")

\* The kernels of the library and of its tests, with their scale and bias.
KernelLaplace == <<0, 1, 0, 1, -4, 1, 0, 1, 0>>
KernelBlur == <<1, 2, 1, 2, 4, 2, 1, 2, 1>>
KernelSharpen == <<0, -1, 0, -1, 5, -1, 0, -1, 0>>
KernelEdge == <<-1, -1, -1, -1, 8, -1, -1, -1, -1>>
KernelEmboss == <<-2, -1, 0, -1, 1, 1, 0, 1, 2>>
KernelShift == <<0, 0, 0, 1, 0, 0, 0, 0, 0>>
ConvInputs ==
    {<<KernelLaplace, 1, 1, 0>>, <<KernelBlur, 1, 16, 0>>, <<KernelSharpen, 1, 1, 0>>,
     <<KernelEdge, 1, 1, 0>>, <<KernelEmboss, 1, 1, 128>>, <<KernelShift, 1, 1, 0>>}

\* Image shapes for the filters: below the minimum, the minimum, and one
\* column / one row more than the minimum.
FilterDims == {<<2, 3>>, <<3, 3>>, <<MaxDim + 1, 3>>, <<3, MaxDim + 1>>}

fossil_image_filter_convolve3x3(kernel, snum, sden, bias, calloc_ok) ==
    /\ Apply("convolve3x3", <<kernel, snum, sden, bias, IF calloc_ok THEN 1 ELSE 0>>,
             filter_convolve3x3(image, kernel, snum, sden, bias, calloc_ok))
    /\ UNCHANGED src

\* ------------------------------------------------------- predefined filters
\* filter.c:155-283.  radius is given in halves (radius2 = 2 * radius);
\* nalloc is the number of calloc calls that succeed before one fails.
filter_rejects(im) ==
    im.st = "null" \/ im.channels = 0 \/ im.width < 3 \/ im.height < 3

\* for (i = 0; i < passes && ok; ++i) ok = convolve3x3(...), from round i on;
\* r is the outcome of the rounds before.
RECURSIVE blur_loop(_, _, _, _)
blur_loop(r, i, passes, nalloc) ==
    IF i >= passes \/ ~r.ok \/ r.fault # "none" THEN r
    ELSE blur_loop(filter_convolve3x3(r.image, KernelBlur, 1, 16, 0, nalloc > i),
                   i + 1, passes, nalloc)

\* The blur taking the single pass whatever the radius.
filter_blur_single(im, radius2, nalloc) ==
    IF filter_rejects(im) THEN Fails(im)
    ELSE filter_convolve3x3(im, KernelBlur, 1, 16, 0, nalloc > 0)

filter_blur(im, radius2, nalloc) ==
    IF filter_rejects(im) THEN Fails(im)
    ELSE IF radius2 <= 2 THEN filter_convolve3x3(im, KernelBlur, 1, 16, 0, nalloc > 0)
    ELSE blur_loop(Outcome(TRUE, im, 0, "none"), 0, radius2 \div 2, nalloc)

\* Radii -1, 0, 0.5, 1, 1.5, 2, 2.5 and 3.
Radii2 == {-2, 0, 1, 2, 3, 4, 5, 6}
MaxPasses == 3

fossil_image_filter_blur(radius2, nalloc) ==
    /\ Apply("blur", <<radius2, nalloc, 0, 0>>, filter_blur(image, radius2, nalloc))
    /\ UNCHANGED src

filter_sharpen(im, calloc_ok) ==
    IF filter_rejects(im) THEN Fails(im)
    ELSE IF im.format \notin Formats THEN Fails(im)
    ELSE filter_convolve3x3(im, KernelSharpen, 1, 1, 0, calloc_ok)

fossil_image_filter_sharpen(calloc_ok) ==
    /\ Apply("sharpen", <<IF calloc_ok THEN 1 ELSE 0, 0, 0, 0>>,
             filter_sharpen(image, calloc_ok))
    /\ UNCHANGED src

filter_edge(im, calloc_ok) ==
    IF filter_rejects(im) THEN Fails(im)
    ELSE IF im.format \notin Formats THEN Fails(im)
    ELSE filter_convolve3x3(im, KernelEdge, 1, 1, 0, calloc_ok)

fossil_image_filter_edge(calloc_ok) ==
    /\ Apply("edge", <<IF calloc_ok THEN 1 ELSE 0, 0, 0, 0>>, filter_edge(image, calloc_ok))
    /\ UNCHANGED src

\* bias 128, 32768 or 0.5 by element width.  The float branch stores
\* sum * scale + bias unclamped, so the bias 0.5 is added to the interior
\* elements of the convolution taken with bias 0.
filter_emboss(im, calloc_ok) ==
    LET r == filter_convolve3x3(im, KernelEmboss, 1, 1, 0, calloc_ok)
        lifted == [e \in 1 .. Len(r.image.data) |->
                      LET p == (e - 1) \div im.channels
                      IN  IF e <= U32(im.width * im.height) * im.channels
                             /\ conv_interior(im.width, im.height,
                                              p % im.width, p \div im.width)
                          THEN r.image.data[e] + FScale \div 2
                          ELSE r.image.data[e]]
    IN  IF filter_rejects(im) THEN Fails(im)
        ELSE IF im.format \notin Formats THEN Fails(im)
        ELSE IF im.format \in Formats16
             THEN filter_convolve3x3(im, KernelEmboss, 1, 1, 32768, calloc_ok)
        ELSE IF im.format \in Formats8
             THEN filter_convolve3x3(im, KernelEmboss, 1, 1, 128, calloc_ok)
        ELSE IF r.ok THEN [r EXCEPT !.image.data = lifted]
        ELSE r

fossil_image_filter_emboss(calloc_ok) ==
    /\ Apply("emboss", <<IF calloc_ok THEN 1 ELSE 0, 0, 0, 0>>,
             filter_emboss(image, calloc_ok))
    /\ UNCHANGED src

\* ---------------------------------------------------------------- histogram
\* analyze.c:34-93.  The bin an element falls in: the value itself for 8-bit
\* formats, val >> 8 for 16-bit formats, (uint8_t)(clamp(val, 0, 1) * 255)
\* for float formats.
hist_bin_low_byte(format, v) ==
    IF is_float(format) THEN (Max(0, Min(v, FScale)) * 255) \div FScale
    ELSE v % 256

hist_bin(format, v) ==
    IF is_float(format) THEN (Max(0, Min(v, FScale)) * 255) \div FScale
    ELSE IF format \in Formats16 THEN v \div 256
    ELSE v

\* The counters after the loops: bin k - 1 = c * 256 + b counts the pixels
\* whose element at i * stride + c falls in b.
hist_count(im, pixels, stride, bins) ==
    [k \in 1 .. bins |->
        Cardinality({i \in 0 .. pixels - 1 :
            hist_bin(im.format, Elem(im, i * stride + (k - 1) \div 256)) = (k - 1) % 256})]

analyze_histogram(im) ==
    LET bins == 256 * im.channels
        pixels == SZ(im.width * im.height)
    IN  IF im.st = "null" THEN [ok |-> FALSE, hist |-> out.hist, fault |-> "none"]
        ELSE IF im.format \notin Formats \/ im.buf = "null"
             THEN [ok |-> FALSE, hist |-> Zeros(bins), fault |-> "none"]
        ELSE IF pixels * im.channels > NumElems(im)
             THEN [ok |-> TRUE, hist |-> Zeros(bins), fault |-> "out_of_bounds"]
        ELSE [ok |-> TRUE, hist |-> hist_count(im, pixels, im.channels, bins),
              fault |-> "none"]

fossil_image_analyze_histogram ==
    /\ CanCall("histogram", NoArgs)
    /\ LET r == analyze_histogram(image)
       IN  /\ out' = [out EXCEPT !.hist = r.hist]
           /\ mem' = [mem EXCEPT !.fault = r.fault]
           /\ last' = Call("histogram", NoArgs, r.ok, image)
    /\ nops' = nops + 1
    /\ UNCHANGED <<image, src>>

\* ------------------------------------------------------------------ entropy
\* analyze.c:401-491.  log2 of the integers 1..64 in thousandths; the entropy
\* is kept in thousandths of a bit.
Log2Table ==
    <<0, 1000, 1585, 2000, 2322, 2585, 2807, 3000, 3170, 3322, 3459, 3585,
      3700, 3807, 3907, 4000, 4087, 4170, 4248, 4322, 4392, 4459, 4524, 4585,
      4644, 4700, 4755, 4807, 4858, 4907, 4954, 5000, 5044, 5087, 5129, 5170,
      5209, 5248, 5285, 5322, 5358, 5392, 5426, 5459, 5492, 5524, 5555, 5585,
      5615, 5644, 5672, 5700, 5728, 5755, 5781, 5807, 5833, 5858, 5883, 5907,
      5931, 5954, 5977, 6000>>

\* Formats whose histogram is taken over the first npixels elements only.
entropy_single ==
    {FOSSIL_PIXEL_FORMAT_GRAY8, FOSSIL_PIXEL_FORMAT_INDEXED8, FOSSIL_PIXEL_FORMAT_YUV24,
     FOSSIL_PIXEL_FORMAT_GRAY16, FOSSIL_PIXEL_FORMAT_FLOAT32}

entropy_bins(im) == IF im.format \in entropy_single THEN 256 ELSE 256 * im.channels

\* -sum of p * log2(p) over the bins in S, times total, in thousandths.
RECURSIVE entropy_sum(_, _, _)
entropy_sum(hist, total, S) ==
    IF S = {} THEN 0
    ELSE LET i == CHOOSE k \in S : TRUE
         IN  hist[i] * (Log2Table[total] - Log2Table[hist[i]])
             + entropy_sum(hist, total, S \ {i})

analyze_entropy(im) ==
    LET npixels == SZ(im.width * im.height)
        bins == entropy_bins(im)
        stride == IF bins > 256 THEN im.channels ELSE 1
        hist == hist_count(im, npixels, stride, bins)
        total == npixels * stride
    IN  IF im.st = "null" THEN [ok |-> FALSE, entropy |-> out.entropy, fault |-> "none"]
        ELSE IF im.format \notin Formats \/ im.buf = "null"
             THEN [ok |-> FALSE, entropy |-> out.entropy, fault |-> "none"]
        ELSE IF npixels * stride > NumElems(im)
             THEN [ok |-> TRUE, entropy |-> out.entropy, fault |-> "out_of_bounds"]
        ELSE [ok |-> TRUE,
              entropy |-> entropy_sum(hist, total, {k \in 1 .. bins : hist[k] > 0})
                          \div total,
              fault |-> "none"]

fossil_image_analyze_entropy ==
    /\ CanCall("entropy", NoArgs)
    /\ LET r == analyze_entropy(image)
       IN  /\ out' = [out EXCEPT !.entropy = r.entropy]
           /\ mem' = [mem EXCEPT !.fault = r.fault]
           /\ last' = Call("entropy", NoArgs, r.ok, image)
    /\ nops' = nops + 1
    /\ UNCHANGED <<image, src>>

\* ------------------------------------------------------ analysis brightness
\* analyze.c:168-252.  The result is the fraction <<num, den>> with
\* num = 1000 * total and den = 1000 * npixels * top, the weights 0.299,
\* 0.587 and 0.114 taken as 299, 587 and 114 thousandths; <<0, 0>> is the
\* NaN of 0.0 / 0.
brightness_single ==
    {FOSSIL_PIXEL_FORMAT_GRAY8, FOSSIL_PIXEL_FORMAT_INDEXED8, FOSSIL_PIXEL_FORMAT_YUV24,
     FOSSIL_PIXEL_FORMAT_GRAY16, FOSSIL_PIXEL_FORMAT_FLOAT32}

brightness_term(im, i) ==
    IF im.format \in brightness_single THEN 1000 * Elem(im, i)
    ELSE 299 * Elem(im, i * im.channels) + 587 * Elem(im, i * im.channels + 1)
         + 114 * Elem(im, i * im.channels + 2)

\* total after the first n rounds of the loop, in thousandths.
RECURSIVE brightness_total(_, _)
brightness_total(im, n) ==
    IF n = 0 THEN 0 ELSE brightness_total(im, n - 1) + brightness_term(im, n - 1)

analyze_brightness(im) ==
    LET npixels == SZ(im.width * im.height)
        top == IF is_float(im.format) THEN FScale ELSE MaxValue(im.format)
        reads == IF im.format \in brightness_single THEN npixels
                 ELSE IF npixels = 0 THEN 0 ELSE (npixels - 1) * im.channels + 3
    IN  IF im.st = "null" THEN [ok |-> FALSE, brightness |-> out.brightness, fault |-> "none"]
        ELSE IF im.format \notin Formats \/ im.buf = "null"
             THEN [ok |-> FALSE, brightness |-> out.brightness, fault |-> "none"]
        ELSE IF reads > NumElems(im)
             THEN [ok |-> TRUE, brightness |-> out.brightness, fault |-> "out_of_bounds"]
        ELSE [ok |-> TRUE,
              brightness |-> <<brightness_total(im, npixels), 1000 * npixels * top>>,
              fault |-> "none"]

fossil_image_analyze_brightness ==
    /\ CanCall("brightness", NoArgs)
    /\ LET r == analyze_brightness(image)
       IN  /\ out' = [out EXCEPT !.brightness = r.brightness]
           /\ mem' = [mem EXCEPT !.fault = r.fault]
           /\ last' = Call("brightness", NoArgs, r.ok, image)
    /\ nops' = nops + 1
    /\ UNCHANGED <<image, src>>

\* ---------------------------------------------------------------- threshold
\* process.c:890-936.  threshold is a uint8_t; 16-bit formats compare with
\* threshold * 257, float formats with threshold / 255.
\* The comparison taken strictly.
threshold_elem_above(format, threshold, v) ==
    IF is_float(format) THEN (IF v * 255 > threshold * FScale THEN FScale ELSE 0)
    ELSE IF format \in Formats16 THEN (IF v > threshold * 257 THEN 65535 ELSE 0)
    ELSE (IF v > threshold THEN 255 ELSE 0)

threshold_elem(format, threshold, v) ==
    IF is_float(format) THEN (IF v * 255 >= threshold * FScale THEN FScale ELSE 0)
    ELSE IF format \in Formats16 THEN (IF v >= threshold * 257 THEN 65535 ELSE 0)
    ELSE (IF v >= threshold THEN 255 ELSE 0)

process_threshold(im, threshold) ==
    LET npixels == elem_count(im)
        cut == [e \in 1 .. NumElems(im) |->
                   threshold_elem(im.format, threshold, Elem(im, e - 1))]
    IN  IF im.st = "null" THEN Fails(im)
        ELSE IF im.format \notin Formats THEN Fails(im)
        ELSE IF im.buf = "null" THEN Fails(im)
        ELSE IF npixels > NumElems(im) THEN Faults(im, "out_of_bounds")
        ELSE Outcome(TRUE, [im EXCEPT !.data = StoreElems(im, npixels, cut)], 0, "none")

\* Thresholds of the tests and values the fill patterns put in a buffer.
Thresholds == {0, 39, 128, 200, 255}

fossil_image_process_threshold(threshold) ==
    /\ Apply("threshold", <<threshold, 0, 0, 0>>, process_threshold(image, threshold))
    /\ UNCHANGED src

\* ---------------------------------------------------------------- normalize
\* process.c:980-1057.  (v - min) * (top / (max - min)) is taken as the exact
\* quotient, then clamped and rounded by (T)(normalized + 0.5f); float formats
\* keep the quotient.  With 8-bit elements the float product is within 0.0001
\* of the exact quotient, so the stored value can differ from the one here
\* only where the quotient is exactly a half.
\* (T)(a * top / d + 0.5f) for top = 255 or 65535, computed in steps that stay
\* below 2^31: a * top = (a * (top / 255)) * 255.
normalize_round(a, top, d) ==
    LET n == a * (top \div 255)
    IN  (n \div d) * 255 + (2 * (n % d) * 255 + d) \div (2 * d)

\* The stretch without the subtraction of the minimum.
normalize_unshifted(format, min_val, max_val, v) ==
    LET top == IF is_float(format) THEN FScale ELSE MaxValue(format)
        d == max_val - min_val
    IN  IF is_float(format) THEN Min(top, (v * top) \div d)
        ELSE Min(top, normalize_round(v, top, d))

normalize_elem(format, min_val, max_val, v) ==
    LET top == IF is_float(format) THEN FScale ELSE MaxValue(format)
        d == max_val - min_val
    IN  IF is_float(format) THEN Max(0, Min(top, ((v - min_val) * top) \div d))
        ELSE Max(0, Min(top, normalize_round(v - min_val, top, d)))

\* min_val and max_val after the scan of the first n elements (n > 0).
normalize_min(im, n) ==
    CHOOSE m \in {Elem(im, e) : e \in 0 .. n - 1} :
        \A e \in 0 .. n - 1 : m <= Elem(im, e)
normalize_max(im, n) ==
    CHOOSE m \in {Elem(im, e) : e \in 0 .. n - 1} :
        \A e \in 0 .. n - 1 : m >= Elem(im, e)

process_normalize(im) ==
    LET npixels == elem_count(im)
    IN  IF im.st = "null" THEN Fails(im)
        ELSE IF im.format \notin Formats THEN Fails(im)
        ELSE IF im.buf = "null" THEN Fails(im)
        ELSE IF npixels > NumElems(im) \/ (is_float(im.format) /\ NumElems(im) = 0)
             THEN Faults(im, "out_of_bounds")
        ELSE IF npixels = 0 THEN Outcome(TRUE, im, 0, "none")
        ELSE LET lo == normalize_min(im, npixels)
                 hi == normalize_max(im, npixels)
                 stretched == [e \in 1 .. NumElems(im) |->
                                  normalize_elem(im.format, lo, hi, Elem(im, e - 1))]
             IN  IF lo = hi THEN Outcome(TRUE, im, 0, "none")
                 ELSE Outcome(TRUE,
                              [im EXCEPT !.data = StoreElems(im, npixels, stretched)],
                              0, "none")

fossil_image_process_normalize ==
    /\ Apply("normalize", NoArgs, process_normalize(image))
    /\ UNCHANGED src

\* ------------------------------------------------------ values of the tests
\* The byte buffers the test cases write: memset to 0, 255 or 100, and the
\* four values of the threshold, normalize and invert tests, repeated over
\* the buffer.
TestValues ==
    {<<0>>, <<255>>, <<100>>, <<100, 200, 50, 255>>, <<50, 100, 150, 200>>,
     <<0, 128, 255, 64>>}

TestData(n, vals) == [k \in 1 .. n |-> vals[((k - 1) % Len(vals)) + 1]]

FillTest(vals) ==
    /\ image.st = "live" /\ image.buf = "live"
    /\ ~is_float(image.format)
    /\ mem.fault = "none"
    /\ last.op = "create"
    /\ image' = [image EXCEPT !.data = TestData(Len(image.data), vals)]
    /\ last' = Call("fill", <<Len(vals), vals[1], vals[Len(vals)], 0>>, TRUE, image)
    /\ UNCHANGED <<src, mem, nops, out>>

\* The second image of the blend test: the shape of the image, memset to a
\* value.
TestSources(im) ==
    {LET s == process_create(im.width, im.height, im.format, TRUE)
     IN  IF s.st = "live" /\ ~is_float(s.format)
         THEN [s EXCEPT !.data = TestData(Len(s.data), vals)]
         ELSE s :
        vals \in {<<0>>, <<255>>, <<100>>}}

\* -------------------------------------------------------- colour brightness
\* part_005:40-86 (color.c).  int is modelled at IntBits bits.
IntBits == 20
INT_MAX == Pow2(IntBits - 1) - 1
INT_MIN == 0 - Pow2(IntBits - 1)
\* Two's complement value of n in an int.
WrapInt(n) == ((n + Pow2(IntBits - 1)) % Pow2(IntBits)) - Pow2(IntBits - 1)

\* size_t pixels = image->width * image->height * image->channels: the
\* product is taken in uint32_t.
color_pixels(im) == U32(U32(im.width * im.height) * im.channels)

\* int val = (int)data[i] + offset.  A sum above INT_MAX is a signed
\* overflow, undefined: the build either wraps it or, having assumed that it
\* cannot happen, carries the sum in a wider register.
brightness_val(v, offset, wraps) ==
    IF v + offset > INT_MAX /\ wraps THEN WrapInt(v + offset) ELSE v + offset

brightness_elem(format, v, offset, wraps) ==
    LET val == brightness_val(v, offset, wraps)
        top == MaxValue(format)
    IN  IF is_float(format) THEN v + offset * FScale
        ELSE IF val < 0 THEN 0 ELSE IF val > top THEN top ELSE val

color_brightness(im, offset, wraps) ==
    LET pixels == color_pixels(im)
        lit == [e \in 1 .. NumElems(im) |->
                   brightness_elem(im.format, Elem(im, e - 1), offset, wraps)]
    IN  IF im.st = "null" THEN Fails(im)
        ELSE IF im.format \notin Formats THEN Fails(im)
        ELSE IF im.buf = "null" THEN Fails(im)
        ELSE IF pixels > NumElems(im) THEN Faults(im, "out_of_bounds")
        ELSE Outcome(TRUE, [im EXCEPT !.data = StoreElems(im, pixels, lit)], 0, "none")

\* Offsets of the tests, offsets beyond the range of an element, and the
\* ends of int.
Offsets == {0, 50, -50, 300, -300, INT_MAX, INT_MIN}

fossil_image_color_brightness(offset, wraps) ==
    /\ Apply("color_brightness", <<offset, IF wraps THEN 1 ELSE 0, 0, 0>>,
             color_brightness(image, offset, wraps))
    /\ UNCHANGED src

\* ------------------------------------------------------------- colour gamma
\* part_005:139-190 (color.c).  gamma is the fraction gnum / gden; the
\* gammas taken are those for which powf(x, 1 / gamma) is x, x * x or
\* sqrt(x).  clamp8 (part_005:34-38) cuts at 255 and truncates.
Gammas == {<<1, 1>>, <<1, 2>>, <<2, 1>>, <<0, 1>>, <<-1, 1>>}

\* (uint8_t) of min(cap, powf(v / top, 1 / gamma) * top), the power taken
\* exactly: the largest s <= cap with s <= top * (v / top)^(1 / gamma).
\* The comparisons are arranged to stay below 2^31.
gamma_pow(top, cap, v, gnum, gden) ==
    IF gnum = gden THEN Min(cap, v)
    ELSE IF v = 0 THEN 0
    ELSE IF gnum < gden
         THEN CHOOSE s \in 0 .. cap :
                 /\ (s * top + v - 1) \div v <= v
                 /\ s = cap \/ ((s + 1) * top + v - 1) \div v > v
         ELSE CHOOSE s \in 0 .. cap :
                 /\ (s * s + top - 1) \div top <= v
                 /\ s = cap \/ ((s + 1) * (s + 1) + top - 1) \div top > v

gamma_elem(format, v, gnum, gden) ==
    IF is_float(format) THEN gamma_pow(FScale, FScale, v, gnum, gden)
    ELSE IF format \in Formats16 THEN gamma_pow(65535, 255, v, gnum, gden)
    ELSE gamma_pow(255, 255, v, gnum, gden)

color_gamma(im, gnum, gden) ==
    LET pixels == color_pixels(im)
        lut == [e \in 1 .. NumElems(im) |->
                   gamma_elem(im.format, Elem(im, e - 1), gnum, gden)]
    IN  IF im.st = "null" \/ gnum <= 0 THEN Fails(im)
        ELSE IF im.format \notin Formats THEN Fails(im)
        ELSE IF im.buf = "null" THEN Fails(im)
        ELSE IF pixels > NumElems(im) THEN Faults(im, "out_of_bounds")
        ELSE Outcome(TRUE, [im EXCEPT !.data = StoreElems(im, pixels, lut)], 0, "none")

fossil_image_color_gamma(gnum, gden) ==
    /\ Apply("color_gamma", <<gnum, gden, 0, 0>>, color_gamma(image, gnum, gden))
    /\ UNCHANGED src

Next ==
    \/ \E w \in CreateDims, h \in CreateDims, f \in CreateFormats, ok \in BOOLEAN :
          fossil_image_process_create(w, h, f, ok)
    \/ \E p \in Patterns : Fill(p)
    \/ Declare
    \/ fossil_image_process_destroy
    \/ \E d \in ResizeDims, m \in ResizeModes, ok \in BOOLEAN :
          fossil_image_process_resize(d[1], d[2], m, ok)
    \/ \E x \in CropOrigins, y \in CropOrigins, w \in CropExtents, h \in CropExtents,
          ok \in BOOLEAN :
          fossil_image_process_crop(x, y, w, h, ok)
    \/ \E hz \in BOOLEAN, vt \in BOOLEAN, ok \in BOOLEAN :
          fossil_image_process_flip(hz, vt, ok)
    \/ \E d \in RotDegrees, ok \in BOOLEAN : fossil_image_process_rotate(d, ok)
    \/ \E s \in BlendSources(image), r \in Ratios : fossil_image_process_blend(s, r[1], r[2])
    \/ \E ok \in BOOLEAN : fossil_image_process_grayscale(ok)
    \/ \E ok \in BOOLEAN : fossil_image_color_to_grayscale(ok)
    \/ fossil_image_process_invert
    \/ \E s \in SobelSources, ok \in BOOLEAN : fossil_image_analyze_edge_sobel(s, ok)

Spec == Init /\ [][Next]_vars

\* Creation alone, over every width, height, format and allocator answer.
NextCreate ==
    \E w \in CreateDims, h \in CreateDims, f \in CreateFormats, ok \in BOOLEAN :
        fossil_image_process_create(w, h, f, ok)
SpecCreate == Init /\ [][NextCreate]_vars

\* Create, fill, then invert (once or twice).
NextInvert ==
    \/ \E w \in CreateDims, h \in CreateDims, f \in CreateFormats, ok \in BOOLEAN :
          fossil_image_process_create(w, h, f, ok)
    \/ \E p \in Patterns : Fill(p)
    \/ fossil_image_process_invert
SpecInvert == Init /\ [][NextInvert]_vars

\* ------------------------------------------------------------------- claims
\* The size an image of these dimensions and format has, as a mathematical
\* integer: width * height * channels * bytes-per-element.
MathSize(width, height, format) ==
    width * height * create_channels(format) * BytesPerElement(format)

SizeConsistent(im) ==
    /\ im.size = MathSize(im.width, im.height, im.format)
    /\ im.channels = create_channels(im.format)
    /\ im.buf = "live"
    /\ BufBytes(im) = im.size

Succeeded(op) ==
    last.op = op /\ last.ok /\ mem.fault = "none" /\ SizeConsistent(last.pre)

SizeOps ==
    {"create", "resize", "crop", "flip", "rotate", "blend", "grayscale",
     "to_grayscale", "invert", "edge_sobel"}

\* C1: after every operation that returns success, the size field equals
\* width * height * channels * bytes-per-element and the buffer the image
\* points to holds exactly that many bytes.
C1_SizeMatchesBuffer ==
    (/\ last.op \in SizeOps /\ last.ok /\ mem.fault = "none" /\ image.st = "live"
     /\ last.op \in {"create", "edge_sobel"} \/ SizeConsistent(last.pre))
        => SizeConsistent(image)

ReplacingOps == {"resize", "crop", "rotate", "grayscale", "to_grayscale", "edge_sobel"}

\* C2: when the allocation of the new buffer fails inside an operation that
\* replaces the buffer, the operation returns failure and the image (buffer
\* and all fields) is exactly as it was before the call.
C2_AllocFailureLeavesImage ==
    (last.op \in ReplacingOps /\ last.alloc = "failed")
        => (~last.ok /\ image = last.pre)

\* C3: destroy is idempotent: a call on an image that was already destroyed
\* (or on NULL, or on an image without buffer) touches no released memory
\* and frees nothing twice.
C3_DestroyIdempotent ==
    last.op = "destroy" => mem.fault = "none"

\* C4: create returns NULL if width = 0, height = 0 or the product
\* width * height * channels * bytes-per-element does not fit the size type;
\* otherwise, for a known format and an allocator that returns memory, it
\* returns an image whose fields match the arguments and whose buffer of
\* exactly size bytes is all zero.
C4_CreateContract ==
    last.op = "create" =>
        LET width == last.a[1]
            height == last.a[2]
            format == last.a[3]
            unfit == width = 0 \/ height = 0
                     \/ MathSize(width, height, format) >= Pow2(SizeBits)
        IN  /\ unfit => image.st = "null"
            /\ (~unfit /\ format \in Formats
                /\ Allocates(MathSize(width, height, format), last.a[4] = 1))
               => /\ image.st = "live"
                  /\ image.width = width /\ image.height = height
                  /\ image.format = format
                  /\ image.size = MathSize(width, height, format)
                  /\ SizeConsistent(image)
                  /\ \A k \in 1 .. Len(image.data) : image.data[k] = 0

\* C4 witness: a product that overflows the size type was refused.
C4_Witness ==
    /\ last.op = "create"
    /\ last.a[1] > 0 /\ last.a[2] > 0 /\ last.a[3] \in Formats /\ last.a[4] = 1
    /\ MathSize(last.a[1], last.a[2], last.a[3]) >= Pow2(SizeBits)
    /\ SZ(MathSize(last.a[1], last.a[2], last.a[3])) <= MaxAlloc
    /\ image.st = "null"

\* C5: after a successful crop the image has the rectangle's width and
\* height, and element c of pixel (i, j) read through the image's buffer is
\* element c of pixel (x + i, y + j) of the image before the call.
C5_CropCopiesRectangle ==
    (Succeeded("crop") /\ last.a[1] + last.a[3] <= last.pre.width
                       /\ last.a[2] + last.a[4] <= last.pre.height)
        => /\ image.width = last.a[3]
           /\ image.height = last.a[4]
           /\ \A i \in 0 .. last.a[3] - 1, j \in 0 .. last.a[4] - 1,
                 c \in 0 .. image.channels - 1 :
                 Pixel(image, i, j, c) = Pixel(last.pre, last.a[1] + i, last.a[2] + j, c)

\* C6: crop returns failure and leaves the image unchanged whenever
\* x + w > width or y + h > height as mathematical integers.
C6_CropRejectsOutside ==
    (last.op = "crop" /\ SizeConsistent(last.pre)
     /\ (last.a[1] + last.a[3] > last.pre.width \/ last.a[2] + last.a[4] > last.pre.height))
        => (~last.ok /\ image = last.pre)

\* C7: a successful nearest-neighbour resize sets width and height to the
\* new dimensions and every element of destination pixel (x, y) to that of
\* source pixel (floor(x * W / newW), floor(y * H / newH)), in every format.
C7_ResizeNearest ==
    (Succeeded("resize") /\ last.a[3] = FOSSIL_INTERP_NEAREST)
        => /\ image.width = last.a[1]
           /\ image.height = last.a[2]
           /\ \A x \in 0 .. image.width - 1, y \in 0 .. image.height - 1,
                 c \in 0 .. image.channels - 1 :
                 Pixel(image, x, y, c) =
                     Pixel(last.pre, (x * last.pre.width) \div image.width,
                           (y * last.pre.height) \div image.height, c)

\* C8: after a successful flip every element of pixel (x, y) is that of the
\* pixel (horizontal ? width-1-x : x, vertical ? height-1-y : y) before the
\* call, in every format, and width, height, format and size are unchanged.
C8_FlipReflects ==
    Succeeded("flip")
        => /\ image.width = last.pre.width /\ image.height = last.pre.height
           /\ image.format = last.pre.format /\ image.size = last.pre.size
           /\ \A x \in 0 .. image.width - 1, y \in 0 .. image.height - 1,
                 c \in 0 .. image.channels - 1 :
                 Pixel(image, x, y, c) =
                     Pixel(last.pre,
                           IF last.a[1] = 1 THEN image.width - 1 - x ELSE x,
                           IF last.a[2] = 1 THEN image.height - 1 - y ELSE y, c)

\* C9: for integer formats, a blend at ratio 0 leaves every element of dst
\* as it was, a blend at ratio 1 makes every element of dst that of src, and
\* src is never modified.
C9_BlendEndpoints ==
    (/\ last.op = "blend" /\ last.ok /\ ~is_float(image.format)
     /\ SizeConsistent(last.pre) /\ SizeConsistent(last.psrc)
     /\ last.psrc.width = last.pre.width /\ last.psrc.height = last.pre.height
     /\ last.psrc.format = last.pre.format)
        => /\ src = last.psrc
           /\ (last.a[1] = 0 =>
                 \A e \in 0 .. NumElems(image) - 1 : Elem(image, e) = Elem(last.pre, e))
           /\ (last.a[1] = last.a[2] =>
                 \A e \in 0 .. NumElems(image) - 1 : Elem(image, e) = Elem(last.psrc, e))

\* C10: on every integer format invert replaces each element v by
\* maxValue - v, and a second invert restores the image exactly.
C10_InvertRoundTrip ==
    (Succeeded("invert") /\ ~is_float(image.format))
        => /\ \A e \in 0 .. NumElems(image) - 1 :
                 Elem(image, e) = MaxValue(image.format) - Elem(last.pre, e)
           /\ (nops = 2 /\ last.pre2.st = "live") => image = last.pre2

\* C10 witness: a 16-bit image with distinct bytes was inverted twice.
C10_Witness ==
    /\ Succeeded("invert") /\ nops = 2
    /\ image.format = FOSSIL_PIXEL_FORMAT_RGB48
    /\ image.width > 1
    /\ image.data[1] # image.data[2]
    /\ image = last.pre2
    /\ image # last.pre

\* Create, fill, then composite an overlay (once or twice).
NextComposite ==
    \/ \E w \in CreateDims, h \in CreateDims, f \in CreateFormats, ok \in BOOLEAN :
          fossil_image_process_create(w, h, f, ok)
    \/ \E p \in Patterns : Fill(p)
    \/ \E o \in CompositeSources(image), x \in CompositeOrigins, y \in CompositeOrigins,
          a \in Alphas : fossil_image_process_composite(o, x, y, a[1], a[2])
SpecComposite == Init /\ [][NextComposite]_vars

\* Create, fill, then convolve (once or twice with the same kernel).
NextFilter ==
    \/ \E d \in FilterDims, f \in CreateFormats, ok \in BOOLEAN :
          fossil_image_process_create(d[1], d[2], f, ok)
    \/ \E p \in Patterns : Fill(p)
    \/ \E k \in ConvInputs, ok \in BOOLEAN :
          fossil_image_filter_convolve3x3(k[1], k[2], k[3], k[4], ok)
    \/ Declare
    \/ \E radius2 \in Radii2, nalloc \in 0 .. MaxPasses :
          fossil_image_filter_blur(radius2, nalloc)
    \/ \E ok \in BOOLEAN : fossil_image_filter_sharpen(ok)
    \/ \E ok \in BOOLEAN : fossil_image_filter_edge(ok)
    \/ \E ok \in BOOLEAN : fossil_image_filter_emboss(ok)
SpecFilter == Init /\ [][NextFilter]_vars

\* Create, fill, then analyse.
AnalyzeDims == 0 .. MaxDim
NextAnalyze ==
    \/ \E w \in AnalyzeDims, h \in AnalyzeDims, f \in CreateFormats, ok \in BOOLEAN :
          fossil_image_process_create(w, h, f, ok)
    \/ \E p \in Patterns : Fill(p)
    \/ \E vals \in TestValues : FillTest(vals)
    \/ fossil_image_analyze_histogram
    \/ fossil_image_analyze_entropy
    \/ fossil_image_analyze_brightness
SpecAnalyze == Init /\ [][NextAnalyze]_vars

SingleChannel ==
    {FOSSIL_PIXEL_FORMAT_GRAY8, FOSSIL_PIXEL_FORMAT_GRAY16,
     FOSSIL_PIXEL_FORMAT_FLOAT32, FOSSIL_PIXEL_FORMAT_INDEXED8}

\* C11: colour to-grayscale on an image that is already single-channel
\* (GRAY8, GRAY16, FLOAT32 or INDEXED8) returns success and changes neither
\* the buffer nor any field; hence a second call after a successful first
\* call changes nothing.
C11_GrayscaleIdempotent ==
    (last.op = "to_grayscale" /\ SizeConsistent(last.pre)
     /\ last.pre.format \in SingleChannel)
        => (last.ok /\ image = last.pre)
\* A composite was called on two well-formed images.
Composited ==
    last.op = "composite" /\ SizeConsistent(last.pre) /\ SizeConsistent(last.psrc)

\* C12: a successful composite changes only elements of dst pixels (dx, dy)
\* with x <= dx < x + overlay.width and y <= dy < y + overlay.height; every
\* other element, all fields of dst and the whole overlay are unchanged.
C12_CompositeFrame ==
    (Composited /\ last.ok)
        => /\ [image EXCEPT !.data = last.pre.data] = last.pre
           /\ Len(image.data) = Len(last.pre.data)
           /\ src = last.psrc
           /\ \A dx \in 0 .. image.width - 1, dy \in 0 .. image.height - 1,
                 c \in 0 .. image.channels - 1 :
                 (~(/\ last.a[1] <= dx /\ dx < last.a[1] + last.psrc.width
                    /\ last.a[2] <= dy /\ dy < last.a[2] + last.psrc.height))
                    => Pixel(image, dx, dy, c) = Pixel(last.pre, dx, dy, c)

\* C12 witness: an overlay smaller than dst was drawn at an offset and
\* changed dst.
C12_Witness ==
    /\ Composited /\ last.ok /\ mem.fault = "none"
    /\ last.a[1] = 1 /\ last.psrc.width < last.pre.width
    /\ last.pre.format \in Formats16
    /\ image # last.pre

Convolved == Succeeded("convolve3x3")

Border(im, x, y) == x = 0 \/ x = im.width - 1 \/ y = 0 \/ y = im.height - 1

\* C14: convolve3x3 leaves every border pixel (x = 0, x = width-1, y = 0 or
\* y = height-1), in every channel, equal to its value before the call.
C14_ConvolveKeepsBorder ==
    Convolved =>
        \A x \in 0 .. image.width - 1, y \in 0 .. image.height - 1,
           c \in 0 .. image.channels - 1 :
           Border(image, x, y) => Pixel(image, x, y, c) = Pixel(last.pre, x, y, c)

\* kernel[i][j] * src(y + i - 1, x + j - 1), summed over i, j in 0..2, on the
\* image before the call.
KernelSum(x, y, c) ==
    LET k == last.a[1]
        s(i, j) == k[3 * i + j + 1] * Pixel(last.pre, x + j - 1, y + i - 1, c)
    IN  s(0, 0) + s(0, 1) + s(0, 2) + s(1, 0) + s(1, 1) + s(1, 2)
        + s(2, 0) + s(2, 1) + s(2, 2)

\* C15: convolve3x3 sets every interior element to scale * sum of
\* kernel[i][j] * src(y+i-1, x+j-1) + bias computed on the buffer as it was
\* before the call, clamped to [0, 255] or [0, 65535] (the integer part is
\* stored) for integer formats and unclamped for float formats.
C15_ConvolveInterior ==
    Convolved =>
        \A x \in 1 .. image.width - 2, y \in 1 .. image.height - 2,
           c \in 0 .. image.channels - 1 :
           LET sden == last.a[3]
               unit == IF is_float(image.format) THEN FScale ELSE 1
               num == KernelSum(x, y, c) * last.a[2] + last.a[4] * unit * sden
               top == MaxValue(image.format)
               v == Pixel(image, x, y, c)
               stored == v * sden <= num /\ num < (v + 1) * sden
           IN  IF is_float(image.format) THEN stored
               ELSE /\ num < 0 => v = 0
                    /\ num > top * sden => v = top
                    /\ (num >= 0 /\ num <= top * sden) => stored

\* C15 witness: a kernel that reads the left neighbour ran over a row with
\* two interior pixels of distinct values.
C15_Witness ==
    /\ Convolved /\ last.a[1] = KernelShift
    /\ image.width > 3 /\ image.format \in Formats16
    /\ Pixel(image, 2, 1, 0) = Pixel(last.pre, 1, 1, 0)
    /\ Pixel(last.pre, 1, 1, 0) # Pixel(last.pre, 0, 1, 0)
RECURSIVE BinSum(_, _, _)
\* Sum of the n bins of out_hist that follow bin `from`.
BinSum(hist, from, n) ==
    IF n = 1 THEN hist[from + 1]
    ELSE BinSum(hist, from, n \div 2) + BinSum(hist, from + n \div 2, n - n \div 2)

\* C16: after a successful histogram, for every channel c the 256 bins
\* out_hist[c*256 .. c*256+255] sum to width * height, and for integer
\* formats bin c*256 + b counts exactly the pixels whose channel-c value
\* maps to b (the value for 8-bit formats, value >> 8 for 16-bit formats).
C16_HistogramCounts ==
    (last.op = "histogram" /\ last.ok /\ mem.fault = "none" /\ SizeConsistent(image))
        => \A c \in 0 .. image.channels - 1 :
              /\ BinSum(out.hist, c * 256, 256) = image.width * image.height
              /\ ~is_float(image.format) =>
                    \A b \in 0 .. 255 :
                       out.hist[c * 256 + b + 1] =
                          Cardinality({p \in (0 .. image.width - 1) \X (0 .. image.height - 1) :
                              LET v == Pixel(image, p[1], p[2], c)
                              IN  b = IF image.format \in Formats16 THEN v \div 256 ELSE v})

\* C16 witness: the histogram of a 16-bit colour image with distinct values
\* was taken.
C16_Witness ==
    /\ last.op = "histogram" /\ last.ok
    /\ image.format = FOSSIL_PIXEL_FORMAT_RGB48
    /\ image.width * image.height > 1
    /\ Pixel(image, 0, 0, 1) % 256 # Pixel(image, 0, 0, 1) \div 256
    /\ out.hist[256 + Pixel(image, 0, 0, 1) \div 256 + 1] > 0

\* All pixels of the image are the same pixel.
AllPixelsEqual(im) ==
    \A x \in 0 .. im.width - 1, y \in 0 .. im.height - 1, c \in 0 .. im.channels - 1 :
        Pixel(im, x, y, c) = Pixel(im, 0, 0, c)

\* C17: for every supported format, the entropy of an image whose pixels are
\* all identical is 0.0 (the half-and-half case of the claim is not needed to
\* refute it).
C17_EntropyOfConstant ==
    (last.op = "entropy" /\ last.ok /\ SizeConsistent(image) /\ AllPixelsEqual(image))
        => out.entropy = 0
\* Create, write the values of a test, then threshold, normalize or blend
\* at ratio 1/2.
NextValues ==
    \/ \E w \in AnalyzeDims, h \in AnalyzeDims, f \in CreateFormats, ok \in BOOLEAN :
          fossil_image_process_create(w, h, f, ok)
    \/ \E p \in Patterns : Fill(p)
    \/ \E vals \in TestValues : FillTest(vals)
    \/ \E t \in Thresholds : fossil_image_process_threshold(t)
    \/ fossil_image_process_normalize
    \/ \E s \in TestSources(image) : fossil_image_process_blend(s, 1, 2)
SpecValues == Init /\ [][NextValues]_vars

MinElem(data) == CHOOSE m \in {data[k] : k \in 1 .. Len(data)} :
                    \A k \in 1 .. Len(data) : m <= data[k]
MaxElem(data) == CHOOSE m \in {data[k] : k \in 1 .. Len(data)} :
                    \A k \in 1 .. Len(data) : m >= data[k]

\* C19: a successful normalize on an 8-bit image whose elements are not all
\* equal leaves 0 as the smallest and 255 as the largest element and keeps
\* the order of the elements (v1 <= v2 before implies v1' <= v2' after); an
\* image whose elements are all equal is returned unchanged with success.
C19_Normalize ==
    (last.op = "normalize" /\ mem.fault = "none" /\ SizeConsistent(last.pre)
     /\ last.pre.format \in Formats8 /\ Len(last.pre.data) > 0)
        => IF MinElem(last.pre.data) = MaxElem(last.pre.data)
           THEN last.ok /\ image = last.pre
           ELSE /\ last.ok
                /\ Len(image.data) = Len(last.pre.data)
                /\ MinElem(image.data) = 0
                /\ MaxElem(image.data) = 255
                /\ \A j, k \in 1 .. Len(last.pre.data) :
                      last.pre.data[j] <= last.pre.data[k]
                          => image.data[j] <= image.data[k]
\* The normalize test: {50, 100, 150, 200} becomes {0, 85, 170, 255}.
C19_Witness ==
    /\ Succeeded("normalize")
    /\ last.pre.format = FOSSIL_PIXEL_FORMAT_GRAY8
    /\ last.pre.data = <<50, 100, 150, 200>>
    /\ image.data = <<0, 85, 170, 255>>
\* An image whose elements are all equal went through normalize.
C19_WitnessConstant ==
    /\ Succeeded("normalize")
    /\ last.pre.format = FOSSIL_PIXEL_FORMAT_GRAY8
    /\ last.pre.data = <<100, 100, 100, 100>>
    /\ image = last.pre
\* C20: blending an 8-bit image whose elements are all 0 with an equally
\* sized image whose elements are all 255 at ratio 0.5 sets every element of
\* dst to 127 (the interpolated 127.5 is stored as 127).
C20_BlendHalf ==
    (Succeeded("blend") /\ SizeConsistent(last.psrc)
     /\ last.pre.format \in Formats8 /\ last.a[1] = 1 /\ last.a[2] = 2
     /\ last.psrc.width = last.pre.width /\ last.psrc.height = last.pre.height
     /\ last.psrc.format = last.pre.format
     /\ last.pre.data = TestData(Len(last.pre.data), <<0>>)
     /\ last.psrc.data = TestData(Len(last.psrc.data), <<255>>))
        => \A k \in 1 .. Len(image.data) : image.data[k] = 127
\* The source coordinate (rx, ry) of destination pixel (x, y) before it is
\* rounded; integral for multiples of 90 degrees.
rotate_rx(w, h, degrees, x, y) ==
    cos_a(degrees) * (x - w \div 2) - sin_a(degrees) * (y - h \div 2) + w \div 2
rotate_ry(w, h, degrees, x, y) ==
    sin_a(degrees) * (x - w \div 2) + cos_a(degrees) * (y - h \div 2) + h \div 2
MapsOutside(w, h, degrees, x, y) ==
    \/ rotate_rx(w, h, degrees, x, y) < 0 \/ rotate_rx(w, h, degrees, x, y) >= w
    \/ rotate_ry(w, h, degrees, x, y) < 0 \/ rotate_ry(w, h, degrees, x, y) >= h

\* C21: a successful rotate leaves width, height, channels, format and size
\* unchanged, and every destination pixel whose source coordinate lies
\* outside the source bounds is zero in all channels.
C21_RotateFixedCanvas ==
    Succeeded("rotate")
        => /\ image.width = last.pre.width /\ image.height = last.pre.height
           /\ image.channels = last.pre.channels /\ image.format = last.pre.format
           /\ image.size = last.pre.size
           /\ \A x \in 0 .. image.width - 1, y \in 0 .. image.height - 1,
                 c \in 0 .. image.channels - 1 :
                 MapsOutside(image.width, image.height, last.a[1], x, y)
                     => Pixel(image, x, y, c) = 0
\* Operations of Next that act on the image in place.
TransformOps ==
    {"resize", "crop", "flip", "rotate", "blend", "grayscale", "to_grayscale", "invert"}

\* width >= 1, height >= 1 and the channel count of the format.
WellDimensioned(im) ==
    im.width >= 1 /\ im.height >= 1 /\ im.channels = create_channels(im.format)

\* C22: every image reached from create through successful operations has
\* width >= 1, height >= 1 and the channel count its format has: create
\* returns such an image and every successful operation on such an image
\* leaves such an image.
C22_DimensionsInvariant ==
    /\ (last.op = "create" /\ last.ok) => WellDimensioned(image)
    /\ (last.op \in TransformOps /\ Succeeded(last.op) /\ WellDimensioned(last.pre))
          => WellDimensioned(image)
\* Create, write values, then a colour operation.
NextColor ==
    \/ \E w \in AnalyzeDims, h \in AnalyzeDims, f \in CreateFormats, ok \in BOOLEAN :
          fossil_image_process_create(w, h, f, ok)
    \/ \E p \in Patterns : Fill(p)
    \/ \E vals \in TestValues : FillTest(vals)
    \/ \E offset \in Offsets, wraps \in BOOLEAN : fossil_image_color_brightness(offset, wraps)
    \/ \E g \in Gammas : fossil_image_color_gamma(g[1], g[2])
SpecColor == Init /\ [][NextColor]_vars

\* C23: a successful colour brightness(offset) on an integer format sets
\* every element v to min(max(v + offset, 0), maxValue), for every offset an
\* int can hold; offset 0 leaves the image unchanged.
C23_BrightnessClamps ==
    (Succeeded("color_brightness") /\ ~is_float(last.pre.format))
        => /\ \A e \in 0 .. NumElems(last.pre) - 1 :
                 Elem(image, e) =
                     Min(Max(Elem(last.pre, e) + last.a[1], 0), MaxValue(last.pre.format))
           /\ last.a[1] = 0 => image = last.pre
\* C24: gamma fails and leaves the image unchanged if gamma <= 0; for every
\* gamma > 0 and every integer format a successful call maps an element 0 to
\* 0 and an element equal to maxValue (255, 65535) to maxValue, never gives a
\* value above maxValue, and keeps the order of the elements.
C24_GammaEndpoints ==
    (last.op = "color_gamma" /\ mem.fault = "none" /\ SizeConsistent(last.pre)
     /\ ~is_float(last.pre.format))
        => IF last.a[1] <= 0 THEN ~last.ok /\ image = last.pre
           ELSE last.ok =>
                  \A e \in 0 .. NumElems(last.pre) - 1 :
                     /\ Elem(last.pre, e) = 0 => Elem(image, e) = 0
                     /\ Elem(last.pre, e) = MaxValue(last.pre.format)
                           => Elem(image, e) = MaxValue(last.pre.format)
                     /\ Elem(image, e) <= MaxValue(last.pre.format)
                     /\ \A d \in 0 .. NumElems(last.pre) - 1 :
                           Elem(last.pre, d) <= Elem(last.pre, e)
                               => Elem(image, d) <= Elem(image, e)
\* 1000 times the luminance-weighted (3 or more channels) or direct (one
\* channel) sum over the first n pixels of an image.
RECURSIVE LumaSum(_, _)
LumaSum(im, n) ==
    IF n = 0 THEN 0
    ELSE LumaSum(im, n - 1)
         + (IF im.channels >= 3
            THEN 299 * Elem(im, (n - 1) * im.channels)
                 + 587 * Elem(im, (n - 1) * im.channels + 1)
                 + 114 * Elem(im, (n - 1) * im.channels + 2)
            ELSE 1000 * Elem(im, n - 1))

\* C25: analysis brightness of an integer-format image lies in [0, 1]; it is
\* the sum of all elements over pixelCount * maxValue for single-channel
\* formats and the average of 0.299 * ch0 + 0.587 * ch1 + 0.114 * ch2 over
\* maxValue for every format with 3 or more channels, YUV24 included; GRAY8
\* {0, 255, 255, 0} gives 0.5.
C25_Brightness ==
    (last.op = "brightness" /\ last.ok /\ mem.fault = "none" /\ SizeConsistent(image)
     /\ ~is_float(image.format))
        => /\ 0 <= out.brightness[1] /\ out.brightness[1] <= out.brightness[2]
           /\ out.brightness[2]
                 = 1000 * image.width * image.height * MaxValue(image.format)
           /\ out.brightness[1] = LumaSum(image, image.width * image.height)
           /\ (image.format = FOSSIL_PIXEL_FORMAT_GRAY8 /\ image.data = <<0, 255, 255, 0>>)
                 => 2 * out.brightness[1] = out.brightness[2]
\* One pass of the 3x3 Gaussian kernel, scale 1/16, bias 0.
BlurPass(im) == filter_convolve3x3(im, KernelBlur, 1, 16, 0, TRUE).image
\* Number of passes the radius (in halves) stands for.
BlurPasses(radius2) == IF radius2 <= 2 THEN 1 ELSE radius2 \div 2

\* C26: a successful blur with radius <= 1 leaves exactly the result of one
\* convolve3x3 pass with kernel [[1,2,1],[2,4,2],[1,2,1]], scale 1/16 and
\* bias 0; with radius > 1 it leaves the result of floor(radius) such passes,
\* each reading the output of the one before.
C26_BlurIsPasses ==
    Succeeded("blur")
        => image = CASE BlurPasses(last.a[1]) = 1 -> BlurPass(last.pre)
                     [] BlurPasses(last.a[1]) = 2 -> BlurPass(BlurPass(last.pre))
                     [] OTHER -> BlurPass(BlurPass(BlurPass(last.pre)))
\* A blur of radius 2.5 whose second pass changed the result of the first.
C26_Witness ==
    /\ Succeeded("blur")
    /\ last.a[1] = 5
    /\ last.pre.format = FOSSIL_PIXEL_FORMAT_RGB24
    /\ image = BlurPass(BlurPass(last.pre))
    /\ image # BlurPass(last.pre)

FilterOps == {"convolve3x3", "blur", "sharpen", "edge", "emboss"}

\* C27: convolve3x3, blur, sharpen, edge and emboss return failure and leave
\* the buffer and the fields of the image unchanged when the image is NULL,
\* has fewer than 3 rows or fewer than 3 columns, or has zero channels.
C27_FiltersReject ==
    (last.op \in FilterOps
     /\ (last.pre.st = "null" \/ last.pre.width < 3 \/ last.pre.height < 3
         \/ last.pre.channels = 0))
        => ~last.ok /\ image = last.pre /\ mem.fault = "none"
\* A filter was refused an image of two columns that create returned.
C27_Witness ==
    /\ last.op \in FilterOps
    /\ last.pre.st = "live" /\ SizeConsistent(last.pre)
    /\ last.pre.width = 2 /\ last.pre.height = 3
    /\ last.pre.data # Zeros(Len(last.pre.data))
    /\ ~last.ok /\ image = last.pre
\* Operations of the process library that index a buffer.
IndexingOps ==
    {"resize", "crop", "flip", "rotate", "blend", "composite", "threshold", "invert",
     "normalize"}

\* C28: on images returned by create, of every format (RGB48 and RGBA64
\* included), resize, crop, flip, rotate, blend, composite, threshold, invert
\* and normalize use no element index at or beyond the end of a buffer.
C28_NoOutOfBounds ==
    (last.op \in IndexingOps /\ SizeConsistent(last.pre)
     /\ (last.op \in {"blend", "composite"} => SizeConsistent(last.psrc)))
        => mem.fault # "out_of_bounds"
\* Transforms of the claim on buffer ownership.
OwningOps == {"resize", "crop", "flip", "rotate", "grayscale", "edge_sobel"}

\* C29: across create, transforms (resize, crop, flip, rotate, grayscale,
\* Sobel edge map) and destroy, every buffer the library allocates is either
\* installed as the image's buffer or freed before the operation returns, and
\* no buffer is freed twice: after a transform of an image that create
\* returned no buffer is leaked and no memory error has happened.
C29_BuffersAccounted ==
    (last.op \in OwningOps /\ last.ok /\ SizeConsistent(last.pre) /\ last.pre.owns_data)
        => mem.leaks = 0 /\ mem.fault # "double_free"
\* Images at the edge of uint32_t: 2^(U32Bits - 1) pixels in a row, in one
\* row and in two.
WideDims ==
    {<<1, 1>>, <<2, 2>>, <<Pow2(U32Bits - 1), 1>>, <<Pow2(U32Bits - 1), 2>>,
     <<2, Pow2(U32Bits - 1)>>}
NextWide ==
    \/ \E d \in WideDims, f \in CreateFormats, ok \in BOOLEAN :
          fossil_image_process_create(d[1], d[2], f, ok)
    \/ \E p \in Patterns : Fill(p)
    \/ \E offset \in Offsets, wraps \in BOOLEAN : fossil_image_color_brightness(offset, wraps)
    \/ \E g \in Gammas : fossil_image_color_gamma(g[1], g[2])
SpecWide == Init /\ [][NextWide]_vars

\* C30: for every image that create returns, those with width * height *
\* channels >= 2^32 included, the element count of colour brightness is the
\* mathematical product and the operation visits every element of the image.
C30_CountsDoNotWrap ==
    (Succeeded("color_brightness") /\ ~is_float(last.pre.format)
     /\ last.a[1] \in {50, -50})
        => /\ color_pixels(last.pre)
                 = last.pre.width * last.pre.height * last.pre.channels
           /\ \A e \in 0 .. last.pre.width * last.pre.height * last.pre.channels - 1 :
                 Elem(image, e) =
                     Min(Max(Elem(last.pre, e) + last.a[1], 0), MaxValue(last.pre.format))
====
